---------------------------- MODULE Spec2Model ----------------------------
(***************************************************************************)
(* A model of the propheseer Python SDK: the retrying HTTP request         *)
(* pipeline (_base_client.py, _exceptions.py, _response.py) and the        *)
(* reconnecting stream client (_websocket.py).                             *)
(*                                                                         *)
(* Python values are tagged records, so that None, strings and integers    *)
(* can be compared and tested for truthiness the way Python does.          *)
(* Durations are integers in milliseconds.                                 *)
(***************************************************************************)
EXTENDS Integers, Sequences, FiniteSets, TLC

(***************************************************************************)
(* Bounds of the model.                                                    *)
(***************************************************************************)
\* largest max_retries a client is constructed with
MaxRetriesArg == 2
\* bits of a float's significand (53 in CPython); random.random() returns
\* a multiple of 2^-FloatBits
FloatBits == 3
\* status codes -1 .. MaxStatus are given to the pure functions
MaxStatus == 600
\* connect() calls (by the caller or by a reconnect) in one run of a stream
\* client
MaxConns == 2
\* subscribe / unsubscribe / list_subscriptions calls in one run
MaxCalls == 2
\* largest max_reconnect_attempts a stream client is constructed with
MaxReconnectArg == 1
\* largest attempt number the reconnect delay is computed for
MaxAttemptNo == 20
\* callbacks registered for one event
MaxHandlers == 2
\* frames a stream client receives in one run
MaxInbound == 2
\* pagination metadata fields range over -1 .. MaxMeta
MaxMeta == 3
\* items the server holds, and the page size asked for
MaxTotal == 4
MaxPageSize == 3

(***************************************************************************)
(* Python values.                                                          *)
(***************************************************************************)
None == [t |-> "none", s |-> "", n |-> 0]
PyStr(x) == [t |-> "str", s |-> x, n |-> 0]
PyInt(k) == [t |-> "int", s |-> "", n |-> k]

\* bool(v): None, "" and 0 are falsy
Truthy(v) == \/ (v.t = "str" /\ v.s # "")
             \/ (v.t = "int" /\ v.n # 0)

\* the expression  a or b
PyOr(a, b) == IF Truthy(a) THEN a ELSE b

\* a dict is a function from its keys; d.get(k) is None for an absent key
EmptyDict == [k \in {} |-> None]
Get(d, k) == IF k \in DOMAIN d THEN d[k] ELSE None

RECURSIVE Pow2(_)
Pow2(k) == IF k <= 0 THEN 1 ELSE 2 * Pow2(k - 1)

\* random.random() is drawn from {0/JitterDen, ..., (JitterDen-1)/JitterDen}
JitterDen == Pow2(FloatBits)

(***************************************************************************)
(* _constants.py                                                           *)
(***************************************************************************)
DEFAULT_MAX_RETRIES == 2
DEFAULT_WS_MAX_RECONNECT_ATTEMPTS == 5

(***************************************************************************)
(* _exceptions.py: an exception is a record of its class and attributes.   *)
(***************************************************************************)
Exc(kind, message, status, code, headers) ==
    [kind |-> kind, message |-> message, status |-> status, code |-> code,
     headers |-> headers, retry_after |-> None, required_plan |-> None,
     balance_cents |-> None, required_cents |-> None, cause |-> None]

NoHeaders == [present |-> FALSE, dict |-> EmptyDict]
SomeHeaders(h) == [present |-> TRUE, dict |-> h]

PropheseerError(message, status, code, headers) ==
    Exc("PropheseerError", message, status, code, headers)

AuthenticationError(message, headers) ==
    Exc("AuthenticationError", message, PyInt(401), PyStr("UNAUTHORIZED"), headers)

InsufficientCreditsError(message, balance_cents, required_cents, headers) ==
    [Exc("InsufficientCreditsError", message, PyInt(402),
         PyStr("INSUFFICIENT_CREDITS"), headers)
       EXCEPT !.balance_cents = balance_cents, !.required_cents = required_cents]

PermissionDeniedErrorNoPlan(message, code, required_plan, headers) ==
    Exc("PermissionDeniedError", message, PyInt(403),
        PyOr(code, PyStr("FORBIDDEN")), headers)

PermissionDeniedError(message, code, required_plan, headers) ==
    [Exc("PermissionDeniedError", message, PyInt(403),
         PyOr(code, PyStr("FORBIDDEN")), headers)
       EXCEPT !.required_plan = required_plan]

NotFoundError(message, headers) ==
    Exc("NotFoundError", message, PyInt(404), PyStr("NOT_FOUND"), headers)

RateLimitError(message, retry_after, headers) ==
    [Exc("RateLimitError", message, PyInt(429), PyStr("RATE_LIMITED"), headers)
       EXCEPT !.retry_after = retry_after]

InternalServerErrorAlways500(message, status, headers) ==
    Exc("InternalServerError", message, PyInt(500), PyStr("INTERNAL_ERROR"), headers)

InternalServerError(message, status, headers) ==
    Exc("InternalServerError", message, PyOr(status, PyInt(500)),
        PyStr("INTERNAL_ERROR"), headers)

APIConnectionError(message, cause) ==
    [Exc("APIConnectionError", message, None, None, NoHeaders)
       EXCEPT !.cause = cause]

\* an exception that is not a PropheseerError (AttributeError, ValueError, ...)
PythonError(kind) == Exc(kind, PyStr(""), None, None, NoHeaders)

NoError == Exc("", PyStr(""), None, None, NoHeaders)

(***************************************************************************)
(* _base_client.py: error mapping                                          *)
(***************************************************************************)
IsRetryableFrom400(status_code) == status_code = 429 \/ status_code > 400

_is_retryable(status_code) == status_code = 429 \/ status_code >= 500

_map_status_to_error(status_code, body, headers) ==
    LET message == PyOr(Get(body, "error"),
                     PyOr(Get(body, "message"),
                          PyStr("API error: " \o ToString(status_code))))
        header_dict == SomeHeaders(headers)
    IN  IF status_code = 401 THEN AuthenticationError(message, header_dict)
        ELSE IF status_code = 402 THEN
            InsufficientCreditsError(message, Get(body, "balanceCents"),
                                     Get(body, "requiredCents"), header_dict)
        ELSE IF status_code = 403 THEN
            PermissionDeniedError(message, Get(body, "code"),
                                  Get(body, "requiredPlan"), header_dict)
        ELSE IF status_code = 404 THEN NotFoundError(message, header_dict)
        ELSE IF status_code = 429 THEN
            RateLimitError(message, Get(body, "retryAfter"), header_dict)
        ELSE IF status_code >= 500 THEN
            InternalServerError(message, PyInt(status_code), header_dict)
        ELSE PropheseerError(message, PyInt(status_code), Get(body, "code"),
                             header_dict)

(***************************************************************************)
(* _response.py: rate-limit headers                                        *)
(***************************************************************************)
\* int(text) for the header texts of the model; any other text raises
\* ValueError
IntLiteral ==
    [x \in {"0", "7", "100", " 42 ", "-3"} |->
        CASE x = "0" -> 0 [] x = "7" -> 7 [] x = "100" -> 100
          [] x = " 42 " -> 42 [] x = "-3" -> 0 - 3]

\* the optional integer header `name`: absent, parsed, or ValueError
IntHeader(headers, name) ==
    LET v == Get(headers, name)
    IN  IF v = None THEN [raised |-> FALSE, value |-> None]
        ELSE IF v.s \in DOMAIN IntLiteral
             THEN [raised |-> FALSE, value |-> PyInt(IntLiteral[v.s])]
             ELSE [raised |-> TRUE, value |-> None]

NoRateLimit ==
    [plan |-> None, billing_type |-> None, limit_day |-> None,
     remaining_day |-> None, limit_minute |-> None, remaining_minute |-> None,
     credit_balance_cents |-> None, credit_balance |-> None,
     request_cost_cents |-> None, request_cost |-> None]

\* [raised, info]: info = NoRateLimit stands for the result None
parse_rate_limit_headers(headers) ==
    LET plan == Get(headers, "x-ratelimit-plan")
        billing_type == IF "x-billing-type" \in DOMAIN headers
                        THEN headers["x-billing-type"]
                        ELSE PyStr("subscription")
        info == [NoRateLimit EXCEPT !.plan = plan, !.billing_type = billing_type]
        bc == IntHeader(headers, "x-credit-balance-cents")
        cc == IntHeader(headers, "x-request-cost-cents")
        ld == IntHeader(headers, "x-ratelimit-limit-day")
        rd == IntHeader(headers, "x-ratelimit-remaining-day")
        lm == IntHeader(headers, "x-ratelimit-limit-minute")
        rm == IntHeader(headers, "x-ratelimit-remaining-minute")
    IN  IF ~Truthy(plan) THEN [raised |-> FALSE, info |-> NoRateLimit]
        ELSE IF billing_type = PyStr("credits") THEN
            IF bc.raised \/ cc.raised THEN [raised |-> TRUE, info |-> NoRateLimit]
            ELSE [raised |-> FALSE,
                  info |-> [info EXCEPT
                      !.credit_balance_cents = bc.value,
                      !.credit_balance = Get(headers, "x-credit-balance"),
                      !.request_cost_cents = cc.value,
                      !.request_cost = Get(headers, "x-request-cost")]]
        ELSE
            IF ld.raised \/ rd.raised \/ lm.raised \/ rm.raised
            THEN [raised |-> TRUE, info |-> NoRateLimit]
            ELSE [raised |-> FALSE,
                  info |-> [info EXCEPT
                      !.limit_day = ld.value, !.remaining_day = rd.value,
                      !.limit_minute = lm.value, !.remaining_minute = rm.value]]

(***************************************************************************)
(* _base_client.py: retry delay, in milliseconds.  `rand` is the numerator *)
(* of random.random() over JitterDen.                                      *)
(***************************************************************************)
\* the sum with no rounding
ExactAddJitter(rand) == rand

\* base_delay + jitter in float arithmetic.  base_delay is a power of two and
\* jitter = rand * base_delay / (2 * JitterDen) is exact; the sum lies in
\* [base_delay, 2 * base_delay), where consecutive floats are
\* 4 * base_delay / (2 * JitterDen) apart, and is rounded to the nearest of
\* them, a tie going to the one with an even significand.  The result is the
\* numerator of the rounded jitter over 2 * JitterDen.
FloatAddJitter(rand) ==
    LET q == rand \div 4
        r == rand % 4
        down_is_even == ((2 * JitterDen) \div 4 + q) % 2 = 0
    IN  IF r < 2 \/ (r = 2 /\ down_is_even) THEN 4 * q ELSE 4 * (q + 1)

\* isinstance(last_error, RateLimitError) and last_error.retry_after
HasRetryAfter(last_error) ==
    last_error.kind = "RateLimitError" /\ Truthy(last_error.retry_after)

_get_retry_delay(att, last_error, rand) ==
    IF HasRetryAfter(last_error)
    THEN 1000 * last_error.retry_after.n
    ELSE LET base_delay == 500 * Pow2(att - 1)
             jitter == (FloatAddJitter(rand) * base_delay)
                           \div (2 * JitterDen)
         IN  base_delay + jitter

(***************************************************************************)
(* State.                                                                  *)
(***************************************************************************)
VARIABLES
    \* BaseSyncClient / BaseAsyncClient: configuration set by __init__
    api_key, max_retries,
    \* one _request call: its argument, its locals and where it stands
    auth, attempt, last_error, pc,
    \* what the call did: network sends, sleeps, the last send's outcome,
    \* and how the call ended
    sends, ndelays, delay, last_outcome, result,
    \* a call of a pure function: its arguments and its result
    call, ret,
    \* two _request calls running at once on the one client: for each its
    \* argument, its locals, where it stands and what it has been sent
    calls

VARIABLES
    \* PropheseerWebSocket: configuration set by __init__
    _reconnect_enabled, _max_reconnect_attempts,
    \* PropheseerWebSocket: fields.  _ws is 0 for None, else the number of
    \* the connection it holds
    _ws, _closed, _reconnect_attempts, _subscribed_markets, _connected_event,
    \* the threads started by connect(), one per call, with their locals;
    \* the live ping loops; the connections as the server sees them
    run, pingers, link,
    \* connect() calls and subscribe/unsubscribe/list calls made so far
    nconn, ncalls,
    \* the events emitted so far, and the last backoff delay slept
    events, reconnect_delay,
    \* _EventEmitter: the callbacks registered with on(), per event
    _listeners,
    \* which of the two stream clients this is
    client_class,
    \* the frames the client has received: how many, and the last one
    inbound,
    \* AsyncPropheseerWebSocket: the task fields (0 for None)
    _receive_task, _ping_task,
    \* what the caller did last of close() and connect(): "never" closed,
    \* "closed", or "reopened" by a connect() after a close()
    close_called

reqVars == <<api_key, max_retries, auth, attempt, last_error, pc,
             sends, ndelays, delay, last_outcome, result>>
fnVars == <<call, ret, calls>>
wsVars == <<_reconnect_enabled, _max_reconnect_attempts, _ws, _closed,
            _reconnect_attempts, _subscribed_markets, _connected_event,
            run, pingers, link, nconn, ncalls, events, reconnect_delay,
            _listeners, client_class, inbound, _receive_task, _ping_task,
            close_called>>
taskVars == <<_listeners, client_class, inbound, _receive_task, _ping_task>>
vars == <<reqVars, fnVars, wsVars>>

(***************************************************************************)
(* _websocket.py: the backoff of the reconnect procedure.                  *)
(***************************************************************************)
ReconnectDelayUncapped(attempts) == 1000 * Pow2(attempts - 1)

\* delay = min(1.0 * 2 ** (attempts - 1), 30.0), in milliseconds
ReconnectDelay(attempts) ==
    IF 1000 * Pow2(attempts - 1) < 30000 THEN 1000 * Pow2(attempts - 1)
    ELSE 30000

(***************************************************************************)
(* _websocket.py: the stream client, as constructed.                       *)
(***************************************************************************)
Markets == {"pm_1", "pm_2"}

NoThread == [pc |-> "unborn", via |-> "", parent |-> 0, snap |-> {},
             cancelled |-> FALSE]
NoLink == [state |-> "none", frames |-> << >>, pinged |-> {}, due |-> {},
           touched |-> FALSE]

\* the events of the client, and _EventEmitter.__init__: no callback yet
EventNames == {"connected", "market_update", "market_snapshot", "subscribed",
               "unsubscribed", "error", "disconnect", "reconnect"}
NoListeners == [e \in EventNames |-> << >>]

\* a frame from the server: a JSON object with its "type" member (None when
\* it has none), a JSON array, or text that is not JSON
ObjectFrame(type) == [json |-> "object", type |-> type]
ArrayFrame == [json |-> "array", type |-> None]
InvalidFrame == [json |-> "invalid", type |-> None]
NoInbound == [n |-> 0, last |-> InvalidFrame]

\* cls.__init__ with the given reconnect and max_reconnect_attempts
WsConstructed(cls, reconnect, max_reconnect_attempts) ==
    /\ client_class = cls
    /\ inbound = NoInbound
    /\ _reconnect_enabled = reconnect
    /\ _max_reconnect_attempts = max_reconnect_attempts
    /\ _ws = 0
    /\ _closed = FALSE
    /\ _reconnect_attempts = 0
    /\ _subscribed_markets = {}
    /\ _connected_event = FALSE
    /\ run = [k \in 1..MaxConns |-> NoThread]
    /\ pingers = {}
    /\ link = [k \in 1..MaxConns |-> NoLink]
    /\ nconn = 0
    /\ ncalls = 0
    /\ events = << >>
    /\ reconnect_delay = 0
    /\ _listeners = NoListeners
    /\ _receive_task = 0
    /\ _ping_task = 0
    /\ close_called = "never"

\* a stream client nobody uses
WsIdle ==
    WsConstructed("PropheseerWebSocket", TRUE,
                  DEFAULT_WS_MAX_RECONNECT_ATTEMPTS)

(***************************************************************************)
(* What the network can answer to one send.                                *)
(***************************************************************************)
\* response.json(): not JSON at all, JSON that is no object, or an object
InvalidJson == [json |-> "invalid", obj |-> EmptyDict]
ArrayJson == [json |-> "array", obj |-> EmptyDict]
ObjectJson(d) == [json |-> "object", obj |-> d]

Statuses == {200, 204, 400, 401, 402, 403, 404, 422, 429, 500, 503}

BodyObjects ==
    { EmptyDict,
      [k \in {"error", "code", "requiredPlan"} |->
          CASE k = "error" -> PyStr("Arbitrage detection requires a Pro plan")
            [] k = "code" -> PyStr("PLAN_UPGRADE_REQUIRED")
            [] k = "requiredPlan" -> PyStr("pro")],
      [k \in {"message", "code", "requiredPlan"} |->
          CASE k = "message" -> PyStr("denied")
            [] k = "code" -> PyStr("")
            [] k = "requiredPlan" -> PyStr("business")],
      [k \in {"requiredPlan"} |-> PyStr("pro")],
      [k \in {"retryAfter"} |-> PyInt(30)],
      [k \in {"error", "retryAfter"} |->
          IF k = "error" THEN PyStr("slow down") ELSE PyInt(0)] }

Bodies == {InvalidJson, ArrayJson} \cup {ObjectJson(d) : d \in BodyObjects}

HeaderSets ==
    { EmptyDict,
      [k \in {"x-ratelimit-plan", "x-ratelimit-limit-day"} |->
          IF k = "x-ratelimit-plan" THEN PyStr("pro") ELSE PyStr("100")],
      [k \in {"x-ratelimit-plan", "x-ratelimit-limit-day"} |->
          IF k = "x-ratelimit-plan" THEN PyStr("pro") ELSE PyStr("abc")] }

Response(status, body, headers) ==
    [type |-> "response", status |-> status, body |-> body, headers |-> headers]
TimeoutException == [type |-> "timeout", status |-> 0, body |-> InvalidJson,
                     headers |-> EmptyDict]
ConnectError == [type |-> "httperror", status |-> 0, body |-> InvalidJson,
                 headers |-> EmptyDict]
NoOutcome == [type |-> "none", status |-> 0, body |-> InvalidJson,
              headers |-> EmptyDict]

Outcomes ==
    {Response(s, b, h) : s \in Statuses, b \in Bodies, h \in HeaderSets}
        \cup {TimeoutException, ConnectError}

\* httpx.Response.is_success
is_success(status) == 200 <= status /\ status <= 299

(***************************************************************************)
(* BaseSyncClient._request / BaseAsyncClient._request (the two bodies are  *)
(* the same statement for statement; the async one awaits the send and the *)
(* sleep).                                                                 *)
(***************************************************************************)
Pending == [type |-> "pending", error |-> NoError, data |-> InvalidJson,
            rate_limit |-> NoRateLimit]
Raised(e) == [type |-> "raise", error |-> e, data |-> InvalidJson,
              rate_limit |-> NoRateLimit]
Returned(data, rate_limit) ==
    [type |-> "return", error |-> NoError, data |-> data,
     rate_limit |-> rate_limit]

\* what one pass through the try block decides
Continue(e) == [next |-> "continue", result |-> Pending, error |-> e]
Stop(r) == [next |-> "stop", result |-> r, error |-> NoError]

MissingCredentialIgnoresAuth(a, key) == ~Truthy(key)

\* if auth and not self.api_key
MissingCredential(a, key) == a /\ ~Truthy(key)

AttemptsRemainOneLess(att, maxr) == att < maxr - 1

\* attempt < self.max_retries
AttemptsRemain(att, maxr) == att < maxr

RetryOrRaiseRecorded(e, prev, att, maxr) ==
    IF AttemptsRemain(att, maxr) THEN Continue(e)
    ELSE Stop(Raised(IF prev = NoError THEN e ELSE prev))

\* if attempt < self.max_retries: last_error = e; continue / raise e
RetryOrRaise(e, prev, att, maxr) ==
    IF AttemptsRemain(att, maxr) THEN Continue(e) ELSE Stop(Raised(e))

\* if response.is_success: data = response.json(); rate_limit = ...; return
OnSuccess(o) ==
    IF o.body.json = "invalid" THEN Stop(Raised(PythonError("JSONDecodeError")))
    ELSE LET rate_limit == parse_rate_limit_headers(o.headers)
         IN  IF rate_limit.raised THEN Stop(Raised(PythonError("ValueError")))
             ELSE Stop(Returned(o.body, rate_limit.info))

\* the error path of the try block: parse the error body, map, retry or raise
OnErrorStatus(o, prev, att, maxr) ==
    IF o.body.json = "array"
    THEN \* body.get on a value that is no dict
         Stop(Raised(PythonError("AttributeError")))
    ELSE LET error_body == IF o.body.json = "invalid" THEN EmptyDict
                           ELSE o.body.obj
             error == _map_status_to_error(o.status, error_body, o.headers)
         IN  IF _is_retryable(o.status)
             THEN RetryOrRaise(error, prev, att, maxr)
             ELSE Stop(Raised(error))

TryBlock(o, prev, att, maxr) ==
    CASE o.type = "timeout" ->
            RetryOrRaise(APIConnectionError(PyStr("Request timed out"),
                                            PyStr("TimeoutException")),
                         prev, att, maxr)
      [] o.type = "httperror" ->
            RetryOrRaise(APIConnectionError(PyStr("Connection error"),
                                            PyStr("ConnectError")),
                         prev, att, maxr)
      [] OTHER ->
            IF is_success(o.status) THEN OnSuccess(o)
            ELSE OnErrorStatus(o, prev, att, maxr)

\* the call starts: the credential check, then the locals of the loop
Request(a) ==
    /\ pc \in {"idle", "done"}
    /\ auth' = a
    /\ attempt' = 0
    /\ last_error' = NoError
    /\ sends' = 0
    /\ ndelays' = 0
    /\ delay' = 0
    /\ last_outcome' = NoOutcome
    /\ IF MissingCredential(a, api_key)
       THEN /\ pc' = "done"
            /\ result' = Raised(AuthenticationError(
                                    PyStr("API key is required."), NoHeaders))
       ELSE /\ pc' = "loop"
            /\ result' = Pending
    /\ UNCHANGED <<api_key, max_retries, fnVars, wsVars>>

\* one iteration of  for attempt in range(self.max_retries + 1)
Attempt(o, rand) ==
    /\ pc = "loop"
    /\ attempt <= max_retries
    /\ IF attempt > 0
       THEN /\ delay' = _get_retry_delay(attempt, last_error, rand)
            /\ ndelays' = ndelays + 1
       ELSE /\ rand = 0
            /\ UNCHANGED <<delay, ndelays>>
    /\ sends' = sends + 1
    /\ last_outcome' = o
    /\ LET t == TryBlock(o, last_error, attempt, max_retries)
       IN  IF t.next = "continue"
           THEN /\ last_error' = t.error
                /\ attempt' = attempt + 1
                /\ UNCHANGED <<pc, result>>
           ELSE \* the call is over and its locals are gone
                /\ pc' = "done"
                /\ result' = t.result
                /\ last_error' = NoError
                /\ attempt' = 0
    /\ UNCHANGED <<api_key, max_retries, auth, fnVars, wsVars>>

\* the loop ran out: raise last_error or PropheseerError(...)
Exhausted ==
    /\ pc = "loop"
    /\ attempt > max_retries
    /\ pc' = "done"
    /\ result' = Raised(IF last_error # NoError THEN last_error
                        ELSE PropheseerError(
                                 PyStr("Request failed after retries"),
                                 None, None, NoHeaders))
    /\ last_error' = NoError
    /\ attempt' = 0
    /\ UNCHANGED <<api_key, max_retries, auth, sends, ndelays, delay,
                   last_outcome, fnVars, wsVars>>

\* a _request call not made yet
NoFrame ==
    [pc |-> "idle", auth |-> TRUE, sends |-> 0, seen |-> << >>,
     result |-> Pending,
     attempt |-> 0, last_error |-> NoError, delay |-> 0, ndelays |-> 0]

NoCalls == [c \in 1..2 |-> NoFrame]

NoCall == [fn |-> "none", args |-> << >>]
NoRet == [done |-> FALSE, value |-> None]

Keys == {None, PyStr(""), PyStr("pk_test")}

\* __init__: api_key or os.environ.get("PROPHESEER_API_KEY");
\* max_retries if max_retries is not None else DEFAULT_MAX_RETRIES
ReqInit ==
    /\ \E arg \in Keys, env \in Keys : api_key = PyOr(arg, env)
    /\ \E m \in {None} \cup {PyInt(k) : k \in (0 - 1)..MaxRetriesArg} :
          max_retries = IF m # None THEN m.n ELSE DEFAULT_MAX_RETRIES
    /\ auth = TRUE
    /\ attempt = 0
    /\ last_error = NoError
    /\ pc = "idle"
    /\ sends = 0
    /\ ndelays = 0
    /\ delay = 0
    /\ last_outcome = NoOutcome
    /\ result = Pending
    /\ calls = NoCalls

Init == ReqInit /\ call = NoCall /\ ret = NoRet /\ WsIdle

\* Spec: the request pipeline alone
Next ==
    \/ \E a \in BOOLEAN : Request(a)
    \/ \E o \in Outcomes, rand \in 0..(JitterDen - 1) : Attempt(o, rand)
    \/ Exhausted

Spec == Init /\ [][Next]_vars

(***************************************************************************)
(* Properties of the request pipeline.                                     *)
(***************************************************************************)
RaisedKind(k) == pc = "done" /\ result.type = "raise" /\ result.error.kind = k

\* the last send got a non-2xx response that _is_retryable does not retry
LastResponseTerminal ==
    /\ last_outcome.type = "response"
    /\ ~(200 <= last_outcome.status /\ last_outcome.status <= 299)
    /\ last_outcome.status # 429
    /\ last_outcome.status < 500

\* the error class the taxonomy gives a terminal status
TerminalKind(status) ==
    CASE status = 401 -> "AuthenticationError"
      [] status = 402 -> "InsufficientCreditsError"
      [] status = 403 -> "PermissionDeniedError"
      [] status = 404 -> "NotFoundError"
      [] OTHER -> "PropheseerError"

\* C1: a call with auth = TRUE on a client without a credential ends at once
\* with an AuthenticationError and no send, whatever max_retries is; with
\* auth = FALSE the missing credential fails nothing: an AuthenticationError
\* then only comes from a 401 the server sent.
C1_NoCredentialFailsLocally ==
    /\ (pc # "idle" /\ auth /\ ~Truthy(api_key)) =>
          /\ RaisedKind("AuthenticationError")
          /\ sends = 0
          /\ ndelays = 0
    /\ (pc # "idle" /\ ~auth) =>
          /\ (pc = "done" /\ sends = 0) =>
                (max_retries < 0 /\ ~RaisedKind("AuthenticationError"))
          /\ RaisedKind("AuthenticationError") => last_outcome.status = 401

C1_Witness ==
    /\ pc = "done" /\ auth /\ api_key = PyStr("")
    /\ max_retries = MaxRetriesArg
    /\ RaisedKind("AuthenticationError") /\ sends = 0

\* C2: a RateLimitError, an InternalServerError or an APIConnectionError
\* leaves _request only when max_retries + 1 sends were made.
C2_RetryableOnlyAfterExhaustion ==
    (\/ RaisedKind("RateLimitError")
     \/ RaisedKind("InternalServerError")
     \/ RaisedKind("APIConnectionError")) => sends = max_retries + 1

C2_Witness ==
    /\ RaisedKind("RateLimitError") /\ max_retries = MaxRetriesArg
    /\ sends = MaxRetriesArg + 1 /\ ndelays = MaxRetriesArg

\* C3: a non-2xx response that is neither 429 nor >= 500 ends the call on
\* that attempt with the error its status maps to: nothing is sent or slept
\* after it.
C3_TerminalStatusRaisesMapped ==
    LastResponseTerminal =>
        /\ RaisedKind(TerminalKind(last_outcome.status))
        /\ result.error.status = PyInt(last_outcome.status)

\* the part of C3 about timing alone: the call is over after that response
C3_TerminalStatusEndsCall ==
    LastResponseTerminal => (pc = "done" /\ result.type = "raise")

\* C4: with max_retries >= 0 a call makes at most max_retries + 1 sends, and
\* the first 2xx response ends it by returning that response's parsed body.
C4_SuccessReturnsBody ==
    /\ max_retries >= 0 => sends <= max_retries + 1
    /\ (last_outcome.type = "response" /\ is_success(last_outcome.status)) =>
          /\ pc = "done"
          /\ result.type = "return"
          /\ result.data = last_outcome.body

\* the part of C4 the code keeps: the bound on sends, and a 2xx response
\* ends the call
C4_SuccessEndsCall ==
    /\ max_retries >= 0 => sends <= max_retries + 1
    /\ (last_outcome.type = "response" /\ is_success(last_outcome.status)) =>
          pc = "done"

\* the error the handling of the outcome `o` constructs
ErrorOf(o) ==
    CASE o.type = "timeout" ->
            APIConnectionError(PyStr("Request timed out"),
                               PyStr("TimeoutException"))
      [] o.type = "httperror" ->
            APIConnectionError(PyStr("Connection error"), PyStr("ConnectError"))
      [] OTHER ->
            _map_status_to_error(o.status,
                                 IF o.body.json = "object" THEN o.body.obj
                                 ELSE EmptyDict,
                                 o.headers)

\* C5: 429/5xx responses and timeouts/connection errors share one attempt
\* counter: a call never makes more than max_retries + 1 sends, and a
\* retryable error that leaves the call is the one of the last send.
C5_SharedBudgetLastErrorRaised ==
    /\ sends <= (IF max_retries >= 0 THEN max_retries + 1 ELSE 0)
    /\ (\/ RaisedKind("RateLimitError")
        \/ RaisedKind("InternalServerError")
        \/ RaisedKind("APIConnectionError")) =>
            result.error = ErrorOf(last_outcome)

\* the last of three sends timed out after a 429 that asked for 30 s
C5_Witness ==
    /\ RaisedKind("APIConnectionError") /\ last_outcome.type = "timeout"
    /\ sends = 3 /\ delay = 30000

\* C6: after a 429 whose body carries retryAfter = r >= 0 the sleep before
\* the next attempt is exactly r seconds.
C6_RetryAfterVerbatim ==
    [][(/\ pc = "loop" /\ attempt > 0 /\ sends' = sends + 1
        /\ last_error.kind = "RateLimitError"
        /\ last_error.retry_after.t = "int"
        /\ last_error.retry_after.n >= 0)
          => delay' = 1000 * last_error.retry_after.n]_vars

\* C9: a 403 whose body carries requiredPlan = p (and maybe code = k) fails
\* the request with a PermissionDeniedError of status 403, required_plan p,
\* and code k when the body has a code, "FORBIDDEN" when it has none.
C9_PermissionDeniedCarriesPlan ==
    (/\ last_outcome.type = "response" /\ last_outcome.status = 403
     /\ last_outcome.body.json = "object"
     /\ "requiredPlan" \in DOMAIN last_outcome.body.obj) =>
        /\ RaisedKind("PermissionDeniedError")
        /\ result.error.status = PyInt(403)
        /\ result.error.required_plan = last_outcome.body.obj["requiredPlan"]
        /\ result.error.code =
              IF "code" \in DOMAIN last_outcome.body.obj
              THEN last_outcome.body.obj["code"]
              ELSE PyStr("FORBIDDEN")

\* C9 as the code has it: the code is k when the body has a non-empty code,
\* and "FORBIDDEN" when the code is absent or empty.
C9_PermissionDeniedCodeOrDefault ==
    (/\ last_outcome.type = "response" /\ last_outcome.status = 403
     /\ last_outcome.body.json = "object"
     /\ "requiredPlan" \in DOMAIN last_outcome.body.obj) =>
        /\ RaisedKind("PermissionDeniedError")
        /\ result.error.status = PyInt(403)
        /\ result.error.required_plan = last_outcome.body.obj["requiredPlan"]
        /\ result.error.code =
              IF /\ "code" \in DOMAIN last_outcome.body.obj
                 /\ last_outcome.body.obj["code"].t = "str"
                 /\ last_outcome.body.obj["code"].s # ""
              THEN last_outcome.body.obj["code"]
              ELSE PyStr("FORBIDDEN")

\* the 403 of tests/resources/test_arbitrage.py
C9_Witness ==
    /\ RaisedKind("PermissionDeniedError")
    /\ last_outcome.status = 403
    /\ result.error.required_plan = PyStr("pro")
    /\ result.error.code = PyStr("PLAN_UPGRADE_REQUIRED")

(***************************************************************************)
(* The pure functions of _base_client.py, applied to drawn arguments.      *)
(***************************************************************************)
\* the request pipeline at rest
ReqIdle ==
    /\ calls = NoCalls
    /\ api_key = None
    /\ max_retries = DEFAULT_MAX_RETRIES
    /\ auth = TRUE
    /\ attempt = 0
    /\ last_error = NoError
    /\ pc = "idle"
    /\ sends = 0
    /\ ndelays = 0
    /\ delay = 0
    /\ last_outcome = NoOutcome
    /\ result = Pending

StatusCodes == (0 - 1)..MaxStatus

MapBodies ==
    BodyObjects \cup
    { [k \in {"balanceCents", "requiredCents"} |->
          IF k = "balanceCents" THEN PyInt(50) ELSE PyInt(100)],
      [k \in {"error", "message", "code"} |->
          CASE k = "error" -> PyStr("")
            [] k = "message" -> PyStr("fallback message")
            [] k = "code" -> PyStr("BAD_REQUEST")] }

MapCalls ==
    {[fn |-> "_is_retryable", args |-> <<c>>] : c \in StatusCodes}
      \cup {[fn |-> "_map_status_to_error", args |-> <<c, b, h>>] :
               c \in StatusCodes, b \in MapBodies, h \in HeaderSets}
      \cup {[fn |-> "ReconnectDelay", args |-> <<n>>] : n \in 1..MaxAttemptNo}

Call_is_retryable ==
    /\ call.fn = "_is_retryable"
    /\ ~ret.done
    /\ ret' = [done |-> TRUE, value |-> _is_retryable(call.args[1])]
    /\ UNCHANGED <<call, calls, reqVars, wsVars>>

Call_map_status_to_error ==
    /\ call.fn = "_map_status_to_error"
    /\ ~ret.done
    /\ ret' = [done |-> TRUE,
               value |-> _map_status_to_error(call.args[1], call.args[2],
                                              call.args[3])]
    /\ UNCHANGED <<call, calls, reqVars, wsVars>>

Call_ReconnectDelay ==
    /\ call.fn = "ReconnectDelay"
    /\ ~ret.done
    /\ ret' = [done |-> TRUE, value |-> ReconnectDelay(call.args[1])]
    /\ UNCHANGED <<call, calls, reqVars, wsVars>>

InitMap == ReqIdle /\ call \in MapCalls /\ ret = NoRet /\ WsIdle

NextMap ==
    \/ Call_is_retryable
    \/ Call_map_status_to_error
    \/ Call_ReconnectDelay

SpecMap == InitMap /\ [][NextMap]_vars

\* C7: _is_retryable(c) is true exactly when c = 429 or c >= 500; it is
\* false on 200..399, 400..404 and 422.
C7_IsRetryableIff ==
    (call.fn = "_is_retryable" /\ ret.done) =>
        LET c == call.args[1]
        IN  /\ ret.value \in BOOLEAN
            /\ ret.value <=> (c = 429 \/ c >= 500)
            /\ (c \in 200..399 \cup 400..404 \cup {422}) => ~ret.value

C7_Witness ==
    /\ call.fn = "_is_retryable" /\ ret.done
    /\ call.args[1] = 429 /\ ret.value = TRUE

\* the error class the taxonomy gives a status
KindOfStatus(c) ==
    CASE c = 401 -> "AuthenticationError"
      [] c = 402 -> "InsufficientCreditsError"
      [] c = 403 -> "PermissionDeniedError"
      [] c = 404 -> "NotFoundError"
      [] c = 429 -> "RateLimitError"
      [] c >= 500 -> "InternalServerError"
      [] OTHER -> "PropheseerError"

\* C8: _map_status_to_error gives every status exactly the class of the
\* taxonomy; an InternalServerError and a generic PropheseerError keep the
\* actual status; a status _is_retryable retries maps to RateLimitError or
\* InternalServerError.  The function is defined on every drawn argument.
C8_MapStatusTaxonomy ==
    /\ (call.fn = "_map_status_to_error" /\ ~ret.done) =>
          ENABLED Call_map_status_to_error
    /\ (call.fn = "_map_status_to_error" /\ ret.done) =>
          LET c == call.args[1]
              e == ret.value
          IN  /\ e.kind = KindOfStatus(c)
              /\ e.kind \in {"InternalServerError", "PropheseerError"} =>
                    e.status = PyInt(c)
              /\ _is_retryable(c) =>
                    e.kind \in {"RateLimitError", "InternalServerError"}

C8_Witness ==
    /\ call.fn = "_map_status_to_error" /\ ret.done
    /\ call.args[1] = 503
    /\ ret.value.kind = "InternalServerError"
    /\ ret.value.status = PyInt(503)

(***************************************************************************)
(* _websocket.py: PropheseerWebSocket, the thread-based stream client.     *)
(* A thread run[k] is started by the k-th connect() and owns the k-th      *)
(* connection attempt link[k].  Whatever runs on the caller's thread is    *)
(* one action; a started thread advances one blocking point at a time.     *)
(***************************************************************************)
Frame(type, markets, by) == [type |-> type, markets |-> markets, by |-> by]

\* _emit: every callback of the event is called in order of registration;
\* an Exception raised by one is logged and the loop goes on.  called are
\* the callbacks called, raised tells whether _emit itself raised
RECURSIVE EmitLoopNoCatch(_, _)
EmitLoopNoCatch(callbacks, i) ==
    IF i > Len(callbacks) THEN [called |-> << >>, raised |-> FALSE]
    ELSE IF callbacks[i] = "raises" THEN [called |-> <<i>>, raised |-> TRUE]
    ELSE LET rest == EmitLoopNoCatch(callbacks, i + 1)
         IN  [called |-> <<i>> \o rest.called, raised |-> rest.raised]

RECURSIVE EmitLoop(_, _)
EmitLoop(callbacks, i) ==
    IF i > Len(callbacks) THEN [called |-> << >>, raised |-> FALSE]
    ELSE LET rest == EmitLoop(callbacks, i + 1)
         IN  [called |-> <<i>> \o rest.called, raised |-> rest.raised]

\* one emission: the event, its argument (the attempt number, the close
\* code, or 0 for a message) and the callbacks that were called
Event(ev, n) ==
    [ev |-> ev, n |-> n, called |-> EmitLoop(_listeners[ev], 1).called]

\* the argument of an error event is an exception: the one raised by the
\* transport, or "Failed to reconnect after {max_reconnect_attempts} attempts",
\* which is recorded as max_reconnect_attempts
TransportError == 0 - 1

\* _emit: the handlers of the event are called, in order
_emit(ev, n) == events' = Append(events, Event(ev, n))

\* a send that would hold the frame back for a connection that is not open
SendOnQueued(lk, w, frame) == [lk EXCEPT ![w].frames = Append(@, frame)]

\* websocket.send on connection w: a frame reaches the server only over an
\* open connection; on a closed one send raises
SendOn(lk, w, frame) ==
    IF lk[w].state = "open"
    THEN [lk EXCEPT ![w].frames = Append(@, frame)]
    ELSE lk

\* _send: nothing without a connection object, and a raising send is
\* swallowed
_send(lk, frame) == IF _ws # 0 THEN SendOn(lk, _ws, frame) ELSE lk

\* websocket.close on connection w
CloseOn(lk, w) ==
    IF lk[w].state = "open" THEN [lk EXCEPT ![w].state = "closed"] ELSE lk

\* the caller changed the subscription set while connection _ws was current
Touch(lk) == IF _ws # 0 THEN [lk EXCEPT ![_ws].touched = TRUE] ELSE lk

\* threading.Thread(target=run).start() inside connect()
StartRun(via, parent) ==
    /\ nconn' = nconn + 1
    /\ run' = [run EXCEPT ![nconn + 1] =
                 [NoThread EXCEPT !.pc = "connecting", !.via = via,
                                  !.parent = parent]]

\* connect() called by the user; the wait on the event changes no state
Connect ==
    /\ nconn < MaxConns
    /\ _closed' = FALSE
    /\ _connected_event' = FALSE
    /\ StartRun("connect", 0)
    /\ close_called' = IF close_called = "never" THEN "never" ELSE "reopened"
    /\ UNCHANGED <<_reconnect_enabled, _max_reconnect_attempts, _ws,
                   _reconnect_attempts, _subscribed_markets, pingers, link,
                   ncalls, events, reconnect_delay, reqVars, fnVars, taskVars>>

subscribe(market_ids) ==
    /\ ncalls < MaxCalls
    /\ ncalls' = ncalls + 1
    /\ _subscribed_markets' = _subscribed_markets \cup market_ids
    /\ link' = _send(Touch(link), Frame("subscribe", market_ids, "caller"))
    /\ UNCHANGED <<_reconnect_enabled, _max_reconnect_attempts, _ws, _closed,
                   _reconnect_attempts, _connected_event, run, pingers,
                   nconn, events, reconnect_delay, reqVars, fnVars, taskVars,
                   close_called>>

unsubscribe(market_ids) ==
    /\ ncalls < MaxCalls
    /\ ncalls' = ncalls + 1
    /\ _subscribed_markets' = _subscribed_markets \ market_ids
    /\ link' = _send(Touch(link), Frame("unsubscribe", market_ids, "caller"))
    /\ UNCHANGED <<_reconnect_enabled, _max_reconnect_attempts, _ws, _closed,
                   _reconnect_attempts, _connected_event, run, pingers,
                   nconn, events, reconnect_delay, reqVars, fnVars, taskVars,
                   close_called>>

list_subscriptions ==
    /\ ncalls < MaxCalls
    /\ ncalls' = ncalls + 1
    /\ link' = _send(link, Frame("list_subscriptions", {}, "caller"))
    /\ UNCHANGED <<_reconnect_enabled, _max_reconnect_attempts, _ws, _closed,
                   _reconnect_attempts, _subscribed_markets,
                   _connected_event, run, pingers, nconn, events,
                   reconnect_delay, reqVars, fnVars, taskVars,
                   close_called>>

\* close(): _stop_ping only forgets the thread object
close ==
    /\ (~_closed \/ _ws # 0 \/ close_called # "closed")
    /\ _closed' = TRUE
    /\ link' = IF _ws # 0 THEN CloseOn(link, _ws) ELSE link
    /\ _ws' = 0
    /\ close_called' = "closed"
    /\ UNCHANGED <<_reconnect_enabled, _max_reconnect_attempts,
                   _reconnect_attempts, _subscribed_markets,
                   _connected_event, run, pingers, nconn, ncalls, events,
                   reconnect_delay, reqVars, fnVars, taskVars>>

\* the server or the network ends connection c
ServerDrop(c) ==
    /\ link[c].state = "open"
    /\ link' = [link EXCEPT ![c].state = "closed"]
    /\ UNCHANGED <<_reconnect_enabled, _max_reconnect_attempts, _ws, _closed,
                   _reconnect_attempts, _subscribed_markets,
                   _connected_event, run, pingers, nconn, ncalls, events,
                   reconnect_delay, reqVars, fnVars, taskVars,
                   close_called>>

\* run(): ws_sync.connect returned a connection; _start_ping starts a loop
RunConnected(k) ==
    /\ run[k].pc = "connecting"
    /\ _ws' = k
    /\ _reconnect_attempts' = 0
    /\ _connected_event' = TRUE
    /\ pingers' = pingers \cup {k}
    /\ link' = [link EXCEPT ![k] =
                  [NoLink EXCEPT !.state = "open",
                                 !.due = _subscribed_markets]]
    /\ run' = [run EXCEPT ![k].pc = "recv"]
    /\ UNCHANGED <<_reconnect_enabled, _max_reconnect_attempts, _closed,
                   _subscribed_markets, nconn, ncalls, events,
                   reconnect_delay, reqVars, fnVars, taskVars,
                   close_called>>

\* run(): ws_sync.connect raised
RunConnectFailed(k) ==
    /\ run[k].pc = "connecting"
    /\ _emit("error", TransportError)
    /\ _connected_event' = TRUE
    /\ run' = [run EXCEPT ![k].pc = "finally"]
    /\ UNCHANGED <<_reconnect_enabled, _max_reconnect_attempts, _ws, _closed,
                   _reconnect_attempts, _subscribed_markets, pingers, link,
                   nconn, ncalls, reconnect_delay, reqVars, fnVars, taskVars,
                   close_called>>

\* run(): the receive loop finds _closed set
RunSeesClosed(k) ==
    /\ run[k].pc = "recv"
    /\ _closed
    /\ run' = [run EXCEPT ![k].pc = "finally"]
    /\ UNCHANGED <<_reconnect_enabled, _max_reconnect_attempts, _ws, _closed,
                   _reconnect_attempts, _subscribed_markets,
                   _connected_event, pingers, link, nconn, ncalls, events,
                   reconnect_delay, reqVars, fnVars, taskVars,
                   close_called>>

\* run(): self._ws.recv raised, self._ws being None or a closed connection
RunRecvError(k) ==
    /\ run[k].pc = "recv"
    /\ IF _ws = 0 THEN TRUE ELSE link[_ws].state # "open"
    /\ IF _closed THEN UNCHANGED events ELSE _emit("error", TransportError)
    /\ run' = [run EXCEPT ![k].pc = "finally"]
    /\ UNCHANGED <<_reconnect_enabled, _max_reconnect_attempts, _ws, _closed,
                   _reconnect_attempts, _subscribed_markets,
                   _connected_event, pingers, link, nconn, ncalls,
                   reconnect_delay, reqVars, fnVars, taskVars,
                   close_called>>

\* run(): the finally block, up to the call of _attempt_reconnect
RunFinally(k) ==
    /\ run[k].pc = "finally"
    /\ link' = IF _ws # 0 THEN CloseOn(link, _ws) ELSE link
    /\ _emit("disconnect", 1000)
    /\ run' = [run EXCEPT ![k].pc =
                 IF ~_closed /\ _reconnect_enabled THEN "reconnect"
                 ELSE "dead"]
    /\ UNCHANGED <<_reconnect_enabled, _max_reconnect_attempts, _ws, _closed,
                   _reconnect_attempts, _subscribed_markets,
                   _connected_event, pingers, nconn, ncalls,
                   reconnect_delay, reqVars, fnVars, taskVars,
                   close_called>>

\* _attempt_reconnect: the test of the counter against the maximum.  No lock
\* is held, so another thread of the client can run between the test and the
\* increment that follows it
AttemptReconnect(k) ==
    /\ run[k].pc = "reconnect"
    /\ IF _reconnect_attempts >= _max_reconnect_attempts
       THEN /\ _emit("error", _max_reconnect_attempts)
            /\ run' = [run EXCEPT ![k].pc = "dead"]
       ELSE /\ run' = [run EXCEPT ![k].pc = "count"]
            /\ UNCHANGED events
    /\ UNCHANGED <<_reconnect_enabled, _max_reconnect_attempts, _ws, _closed,
                   _reconnect_attempts, _subscribed_markets,
                   _connected_event, pingers, link, nconn, ncalls,
                   reconnect_delay, reqVars, fnVars, taskVars,
                   close_called>>

\* _attempt_reconnect: the increment, the delay and the reconnect event, up
\* to time.sleep(delay)
ReconnectCount(k) ==
    /\ run[k].pc = "count"
    /\ _reconnect_attempts' = _reconnect_attempts + 1
    /\ reconnect_delay' = ReconnectDelay(_reconnect_attempts + 1)
    /\ _emit("reconnect", _reconnect_attempts + 1)
    /\ run' = [run EXCEPT ![k].pc = "backoff"]
    /\ UNCHANGED <<_reconnect_enabled, _max_reconnect_attempts, _ws, _closed,
                   _subscribed_markets, _connected_event, pingers, link,
                   nconn, ncalls, reqVars, fnVars, taskVars,
                   close_called>>

\* _attempt_reconnect: the sleep is over; return if closed
BackoffDone(k) ==
    /\ run[k].pc = "backoff"
    /\ run' = [run EXCEPT ![k].pc = IF _closed THEN "dead"
                                    ELSE "reconnecting"]
    /\ UNCHANGED <<_reconnect_enabled, _max_reconnect_attempts, _ws, _closed,
                   _reconnect_attempts, _subscribed_markets,
                   _connected_event, pingers, link, nconn, ncalls, events,
                   reconnect_delay, reqVars, fnVars, taskVars,
                   close_called>>

\* _attempt_reconnect: self.connect(), up to its wait on the event
ReconnectConnects(k) ==
    /\ run[k].pc = "reconnecting"
    /\ nconn < MaxConns
    /\ _closed' = FALSE
    /\ _connected_event' = FALSE
    /\ nconn' = nconn + 1
    /\ run' = [run EXCEPT
                 ![k].pc = "waitconnect",
                 ![nconn + 1] = [NoThread EXCEPT !.pc = "connecting",
                                                 !.via = "reconnect",
                                                 !.parent = k]]
    /\ UNCHANGED <<_reconnect_enabled, _max_reconnect_attempts, _ws,
                   _reconnect_attempts, _subscribed_markets, pingers, link,
                   ncalls, events, reconnect_delay, reqVars, fnVars, taskVars,
                   close_called>>

\* _attempt_reconnect: connect() is back; list(self._subscribed_markets)
AfterConnect(k) ==
    /\ run' = [run EXCEPT ![k] =
                 IF _subscribed_markets # {}
                 THEN [@ EXCEPT !.pc = "replay",
                                !.snap = _subscribed_markets]
                 ELSE [@ EXCEPT !.pc = "dead"]]
    /\ UNCHANGED <<_reconnect_enabled, _max_reconnect_attempts, _ws, _closed,
                   _reconnect_attempts, _subscribed_markets,
                   _connected_event, pingers, link, nconn, ncalls, events,
                   reconnect_delay, reqVars, fnVars, taskVars,
                   close_called>>

\* connect() returns because the event was set
ConnectReturns(k) ==
    /\ run[k].pc = "waitconnect"
    /\ _connected_event
    /\ AfterConnect(k)

\* connect() returns because its timeout (10 s by default) ran out
ConnectTimedOut(k) ==
    /\ run[k].pc = "waitconnect"
    /\ ~_connected_event
    /\ AfterConnect(k)

\* _attempt_reconnect: subscribe(the list taken), after which run() is over
Replay(k) ==
    /\ run[k].pc = "replay"
    /\ _subscribed_markets' = _subscribed_markets \cup run[k].snap
    /\ link' = _send(link, Frame("subscribe", run[k].snap, "replay"))
    /\ run' = [run EXCEPT ![k].pc = "dead"]
    /\ UNCHANGED <<_reconnect_enabled, _max_reconnect_attempts, _ws, _closed,
                   _reconnect_attempts, _connected_event, pingers, nconn,
                   ncalls, events, reconnect_delay, reqVars, fnVars, taskVars,
                   close_called>>

\* ping_loop of the loop started with connection k: one sleep, then the
\* ping unless closed or without a connection object
PingTick(k) ==
    /\ k \in pingers
    /\ ~_closed /\ _ws # 0
    /\ link[_ws].state = "open"
    /\ k \notin link[_ws].pinged
    /\ link' = [link EXCEPT ![_ws].pinged = @ \cup {k}]
    /\ UNCHANGED <<_reconnect_enabled, _max_reconnect_attempts, _ws, _closed,
                   _reconnect_attempts, _subscribed_markets,
                   _connected_event, run, pingers, nconn, ncalls, events,
                   reconnect_delay, reqVars, fnVars, taskVars,
                   close_called>>

\* ping_loop: the while condition fails and the thread ends
PingExit(k) ==
    /\ k \in pingers
    /\ (_closed \/ _ws = 0)
    /\ pingers' = pingers \ {k}
    /\ UNCHANGED <<_reconnect_enabled, _max_reconnect_attempts, _ws, _closed,
                   _reconnect_attempts, _subscribed_markets,
                   _connected_event, run, link, nconn, ncalls, events,
                   reconnect_delay, reqVars, fnVars, taskVars,
                   close_called>>

MarketLists == (SUBSET Markets) \ {{}}

InitWS ==
    /\ ReqIdle /\ call = NoCall /\ ret = NoRet
    /\ \E reconnect \in BOOLEAN, m \in 0..MaxReconnectArg :
          WsConstructed("PropheseerWebSocket", reconnect, m)

NextWS ==
    \/ Connect
    \/ \E ids \in MarketLists : subscribe(ids)
    \/ \E ids \in MarketLists : unsubscribe(ids)
    \/ list_subscriptions
    \/ close
    \/ \E c \in 1..MaxConns : ServerDrop(c)
    \/ \E k \in 1..MaxConns : RunConnected(k)
    \/ \E k \in 1..MaxConns : RunConnectFailed(k)
    \/ \E k \in 1..MaxConns : RunSeesClosed(k)
    \/ \E k \in 1..MaxConns : RunRecvError(k)
    \/ \E k \in 1..MaxConns : RunFinally(k)
    \/ \E k \in 1..MaxConns : AttemptReconnect(k)
    \/ \E k \in 1..MaxConns : ReconnectCount(k)
    \/ \E k \in 1..MaxConns : BackoffDone(k)
    \/ \E k \in 1..MaxConns : ReconnectConnects(k)
    \/ \E k \in 1..MaxConns : ConnectReturns(k)
    \/ \E k \in 1..MaxConns : ConnectTimedOut(k)
    \/ \E k \in 1..MaxConns : Replay(k)

\* The ping loops read _closed, _ws and the connections, and write only
\* pingers and the pinged field, which nothing else reads: the subscription
\* and reconnect behaviour is the same with and without their steps.
SpecWS == InitWS /\ [][NextWS]_vars

\* the connection life cycle together with the ping loops
NextPing ==
    \/ Connect
    \/ close
    \/ \E c \in 1..MaxConns : ServerDrop(c)
    \/ \E k \in 1..MaxConns : RunConnected(k)
    \/ \E k \in 1..MaxConns : RunConnectFailed(k)
    \/ \E k \in 1..MaxConns : RunSeesClosed(k)
    \/ \E k \in 1..MaxConns : RunRecvError(k)
    \/ \E k \in 1..MaxConns : RunFinally(k)
    \/ \E k \in 1..MaxConns : AttemptReconnect(k)
    \/ \E k \in 1..MaxConns : ReconnectCount(k)
    \/ \E k \in 1..MaxConns : BackoffDone(k)
    \/ \E k \in 1..MaxConns : ReconnectConnects(k)
    \/ \E k \in 1..MaxConns : ConnectReturns(k)
    \/ \E k \in 1..MaxConns : ConnectTimedOut(k)
    \/ \E k \in 1..MaxConns : PingTick(k)
    \/ \E k \in 1..MaxConns : PingExit(k)

SpecPing == InitWS /\ [][NextPing]_vars

(***************************************************************************)
(* _websocket.py: AsyncPropheseerWebSocket, the asyncio stream client.     *)
(* run[k] is the k-th call of connect() and, once its handshake has        *)
(* succeeded, the receive_loop task of connection k.  The event loop runs  *)
(* one task at a time, so an action is the code between two awaits.        *)
(* subscribe, unsubscribe and list_subscriptions are the statements of the *)
(* thread-based client with _send_nowait for _send.                        *)
(***************************************************************************)
\* Task.cancel() on the task t (0 for None): CancelledError is thrown at the
\* await where the task is suspended, the next time the loop runs it
CancelTask(r, t) ==
    IF t # 0 /\ r[t].pc \in {"created", "recv", "backoff", "waitconnect"}
    THEN [r EXCEPT ![t].cancelled = TRUE]
    ELSE r

\* connect() awaited by the user, up to the await of websockets.connect
AsyncConnect ==
    /\ nconn < MaxConns
    /\ _closed' = FALSE
    /\ StartRun("connect", 0)
    /\ close_called' = IF close_called = "never" THEN "never" ELSE "reopened"
    /\ UNCHANGED <<_reconnect_enabled, _max_reconnect_attempts, _ws,
                   _reconnect_attempts, _subscribed_markets,
                   _connected_event, pingers, link, ncalls, events,
                   reconnect_delay, reqVars, fnVars, taskVars>>

\* connect(): websockets.connect returned; _start_ping cancels the old ping
\* task, _start_receive cancels the old receive task.  When connect() was
\* awaited by _attempt_reconnect, that coroutine goes on to replay the set
\* and returns, which ends the task it ran in.
AsyncConnected(k) ==
    /\ run[k].pc = "connecting"
    /\ (run[k].via = "reconnect" => ~run[run[k].parent].cancelled)
    /\ _ws' = k
    /\ _reconnect_attempts' = 0
    /\ pingers' = (pingers \ {_ping_task}) \cup {k}
    /\ _ping_task' = k
    /\ _receive_task' = k
    /\ LET opened == [link EXCEPT ![k] =
                        [NoLink EXCEPT !.state = "open",
                                       !.due = _subscribed_markets]]
           started == [CancelTask(run, _receive_task) EXCEPT
                          ![k].pc = "created"]
       IN  IF run[k].via = "reconnect"
           THEN /\ run' = [started EXCEPT ![run[k].parent].pc = "dead",
                                          ![run[k].parent].cancelled = FALSE]
                /\ link' = IF _subscribed_markets # {}
                           THEN SendOn(opened, k,
                                       Frame("subscribe", _subscribed_markets,
                                             "replay"))
                           ELSE opened
           ELSE /\ run' = started
                /\ link' = opened
    /\ UNCHANGED <<_reconnect_enabled, _max_reconnect_attempts, _closed,
                   _subscribed_markets, _connected_event, nconn, ncalls,
                   events, reconnect_delay, _listeners, client_class,
                   inbound, close_called,
                   reqVars, fnVars>>

\* the receive task created by _start_receive runs for the first time and
\* enters the try block of receive_loop; a task cancelled before that never
\* enters it
AsyncReceiveStarts(k) ==
    /\ run[k].pc = "created" /\ ~run[k].cancelled
    /\ run' = [run EXCEPT ![k].pc = "recv"]
    /\ UNCHANGED <<_reconnect_enabled, _max_reconnect_attempts, _ws, _closed,
                   _reconnect_attempts, _subscribed_markets,
                   _connected_event, pingers, link, nconn, ncalls, events,
                   reconnect_delay, reqVars, fnVars, taskVars, close_called>>

\* connect(): websockets.connect raised.  The caller of connect() gets the
\* exception; _attempt_reconnect swallows it and returns
AsyncConnectFailed(k) ==
    /\ run[k].pc = "connecting"
    /\ (run[k].via = "reconnect" => ~run[run[k].parent].cancelled)
    /\ run' = IF run[k].via = "reconnect"
              THEN [run EXCEPT ![k].pc = "dead",
                               ![run[k].parent].pc = "dead",
                               ![run[k].parent].cancelled = FALSE]
              ELSE [run EXCEPT ![k].pc = "raised"]
    /\ UNCHANGED <<_reconnect_enabled, _max_reconnect_attempts, _ws, _closed,
                   _reconnect_attempts, _subscribed_markets,
                   _connected_event, pingers, link, nconn, ncalls, events,
                   reconnect_delay, reqVars, fnVars, taskVars, close_called>>

\* close(): both tasks are cancelled, the connection is closed
AsyncClose ==
    /\ (~_closed \/ _ws # 0 \/ close_called # "closed")
    /\ _closed' = TRUE
    /\ pingers' = pingers \ {_ping_task}
    /\ _ping_task' = 0
    /\ run' = CancelTask(run, _receive_task)
    /\ _receive_task' = 0
    /\ link' = IF _ws # 0 THEN CloseOn(link, _ws) ELSE link
    /\ _ws' = 0
    /\ close_called' = "closed"
    /\ UNCHANGED <<_reconnect_enabled, _max_reconnect_attempts,
                   _reconnect_attempts, _subscribed_markets,
                   _connected_event, nconn, ncalls, events, reconnect_delay,
                   _listeners, client_class, inbound, reqVars, fnVars>>

\* receive_loop: the finally block, and _attempt_reconnect up to its sleep,
\* after the events evs emitted before it
AsyncFinally(k, evs) ==
    LET out == Append(evs, Event("disconnect", 1000)) IN
    IF ~_closed /\ _reconnect_enabled
    THEN IF _reconnect_attempts >= _max_reconnect_attempts
         THEN /\ events' = Append(out, Event("error", _max_reconnect_attempts))
              /\ run' = [run EXCEPT ![k].pc = "dead", ![k].cancelled = FALSE]
              /\ UNCHANGED <<_reconnect_attempts, reconnect_delay>>
         ELSE /\ _reconnect_attempts' = _reconnect_attempts + 1
              /\ reconnect_delay' = ReconnectDelay(_reconnect_attempts + 1)
              /\ events' = Append(out, Event("reconnect",
                                             _reconnect_attempts + 1))
              /\ run' = [run EXCEPT ![k].pc = "backoff",
                                    ![k].cancelled = FALSE]
    ELSE /\ events' = out
         /\ run' = [run EXCEPT ![k].pc = "dead", ![k].cancelled = FALSE]
         /\ UNCHANGED <<_reconnect_attempts, reconnect_delay>>

\* receive_loop: the iteration over connection k ends because the connection
\* is closed; with_error when it ended with a ConnectionClosedError
ReceiveLoopEnds(k, with_error) ==
    /\ run[k].pc = "recv" /\ ~run[k].cancelled
    /\ link[k].state = "closed"
    /\ AsyncFinally(k, IF with_error /\ ~_closed
                       THEN Append(events, Event("error", TransportError)) ELSE events)
    /\ UNCHANGED <<_reconnect_enabled, _max_reconnect_attempts, _ws, _closed,
                   _subscribed_markets, _connected_event, pingers, link,
                   nconn, ncalls, reqVars, fnVars, taskVars, close_called>>

\* a cancelled task is resumed: CancelledError is no Exception, so in
\* receive_loop only the finally block runs; thrown inside
\* _attempt_reconnect it ends the task, and with it the connect() awaited;
\* thrown into a task that never ran it ends the task before the try block
AsyncCancelled(k) ==
    /\ run[k].cancelled
    /\ CASE run[k].pc = "recv" -> AsyncFinally(k, events)
         [] run[k].pc = "backoff" ->
              /\ run' = [run EXCEPT ![k].pc = "dead", ![k].cancelled = FALSE]
              /\ UNCHANGED <<events, _reconnect_attempts, reconnect_delay>>
         [] OTHER ->
              /\ run' = [j \in 1..MaxConns |->
                           IF j = k \/ (run[j].parent = k
                                        /\ run[j].pc = "connecting")
                           THEN [run[j] EXCEPT !.pc = "dead",
                                               !.cancelled = FALSE]
                           ELSE run[j]]
              /\ UNCHANGED <<events, _reconnect_attempts, reconnect_delay>>
    /\ UNCHANGED <<_reconnect_enabled, _max_reconnect_attempts, _ws, _closed,
                   _subscribed_markets, _connected_event, pingers, link,
                   nconn, ncalls, reqVars, fnVars, taskVars, close_called>>

\* _attempt_reconnect: the sleep is over; return if closed, else connect()
\* up to the await of websockets.connect
AsyncBackoffDone(k) ==
    /\ run[k].pc = "backoff" /\ ~run[k].cancelled
    /\ IF _closed
       THEN /\ run' = [run EXCEPT ![k].pc = "dead"]
            /\ UNCHANGED <<_closed, nconn>>
       ELSE /\ nconn < MaxConns
            /\ _closed' = FALSE
            /\ nconn' = nconn + 1
            /\ run' = [run EXCEPT
                         ![k].pc = "waitconnect",
                         ![nconn + 1] = [NoThread EXCEPT
                                           !.pc = "connecting",
                                           !.via = "reconnect",
                                           !.parent = k]]
    /\ UNCHANGED <<_reconnect_enabled, _max_reconnect_attempts, _ws,
                   _reconnect_attempts, _subscribed_markets,
                   _connected_event, pingers, link, ncalls, events,
                   reconnect_delay, reqVars, fnVars, taskVars, close_called>>

NextAWS ==
    \/ AsyncConnect
    \/ \E ids \in MarketLists : subscribe(ids)
    \/ \E ids \in MarketLists : unsubscribe(ids)
    \/ list_subscriptions
    \/ AsyncClose
    \/ \E c \in 1..MaxConns : ServerDrop(c)
    \/ \E k \in 1..MaxConns : AsyncConnected(k)
    \/ \E k \in 1..MaxConns : AsyncConnectFailed(k)
    \/ \E k \in 1..MaxConns : AsyncReceiveStarts(k)
    \/ \E k \in 1..MaxConns, with_error \in BOOLEAN :
          ReceiveLoopEnds(k, with_error)
    \/ \E k \in 1..MaxConns : AsyncCancelled(k)
    \/ \E k \in 1..MaxConns : AsyncBackoffDone(k)

InitAWS ==
    /\ ReqIdle /\ call = NoCall /\ ret = NoRet
    /\ \E reconnect \in BOOLEAN, m \in 0..MaxReconnectArg :
          WsConstructed("AsyncPropheseerWebSocket", reconnect, m)

SpecAWS == InitAWS /\ [][NextAWS]_vars

(***************************************************************************)
(* _websocket.py: the receive loops of both stream clients and the         *)
(* callbacks registered on them.                                           *)
(***************************************************************************)
HandledTypesFewer == {"connected", "market_update"}

HandledTypes == {"connected", "market_update", "market_snapshot",
                 "subscribed", "unsubscribed", "error"}

InboundFrames ==
    {ObjectFrame(PyStr(t)) : t \in {"market_update", "subscribed", "pong"}}
      \cup {ObjectFrame(None), ArrayFrame, InvalidFrame}

\* json.loads(raw) and _handle_message(message): the events emitted, and the
\* exception that comes out, "" for none
ReceiveFrame(frame) ==
    CASE frame.json = "invalid" ->
           [evs |-> << >>, raised |-> "JSONDecodeError"]
      [] frame.json = "array" ->
           [evs |-> << >>, raised |-> "AttributeError"]
      [] OTHER ->
           LET msg_type == IF frame.type = None THEN "" ELSE frame.type.s
           IN  IF msg_type \in HandledTypes
               THEN [evs |-> <<Event(msg_type, 0)>>,
                     raised |-> IF EmitLoop(_listeners[msg_type], 1).raised
                                THEN "Exception" ELSE ""]
               ELSE [evs |-> << >>, raised |-> ""]

\* on(event, callback), called before the first connect(); the callback is
\* one that returns or one that raises an Exception
on(event, callback) ==
    /\ nconn = 0
    /\ Len(_listeners[event]) < MaxHandlers
    /\ _listeners' = [_listeners EXCEPT ![event] = Append(@, callback)]
    /\ UNCHANGED <<_reconnect_enabled, _max_reconnect_attempts, _ws, _closed,
                   _reconnect_attempts, _subscribed_markets,
                   _connected_event, run, pingers, link, nconn, ncalls,
                   events, reconnect_delay, client_class, inbound,
                   _receive_task, _ping_task, close_called, reqVars, fnVars>>

\* run(): one pass of the receive loop in which recv returns a frame
RunRecvMessage(k, frame) ==
    /\ run[k].pc = "recv"
    /\ ~_closed
    /\ IF _ws = 0 THEN FALSE ELSE link[_ws].state = "open"
    /\ inbound.n < MaxInbound
    /\ inbound' = [n |-> inbound.n + 1, last |-> frame]
    /\ LET r == ReceiveFrame(frame)
       IN  IF r.raised = ""
           THEN /\ events' = events \o r.evs
                /\ run' = run
           ELSE /\ events' = Append(events \o r.evs,
                                    Event("error", TransportError))
                /\ run' = [run EXCEPT ![k].pc = "finally"]
    /\ UNCHANGED <<_reconnect_enabled, _max_reconnect_attempts, _ws, _closed,
                   _reconnect_attempts, _subscribed_markets,
                   _connected_event, pingers, link, nconn, ncalls,
                   reconnect_delay, _listeners, client_class, _receive_task,
                   _ping_task, close_called, reqVars, fnVars>>

\* receive_loop: one pass of `async for raw in self._ws`
AsyncRecvMessage(k, frame) ==
    /\ run[k].pc = "recv" /\ ~run[k].cancelled
    /\ link[k].state = "open"
    /\ inbound.n < MaxInbound
    /\ inbound' = [n |-> inbound.n + 1, last |-> frame]
    /\ LET r == ReceiveFrame(frame)
       IN  IF _closed THEN AsyncFinally(k, events)
           ELSE IF r.raised \in {"", "JSONDecodeError"}
           THEN /\ events' = events \o r.evs
                /\ UNCHANGED <<run, _reconnect_attempts, reconnect_delay>>
           ELSE AsyncFinally(k, Append(events \o r.evs,
                                       Event("error", TransportError)))
    /\ UNCHANGED <<_reconnect_enabled, _max_reconnect_attempts, _ws, _closed,
                   _subscribed_markets, _connected_event, pingers, link,
                   nconn, ncalls, _listeners, client_class, _receive_task,
                   _ping_task, close_called, reqVars, fnVars>>

InitRecv ==
    /\ ReqIdle /\ call = NoCall /\ ret = NoRet
    /\ \E cls \in {"PropheseerWebSocket", "AsyncPropheseerWebSocket"} :
          WsConstructed(cls, TRUE, 1)

NextRecv ==
    \/ \E callback \in {"returns", "raises"} : on("market_update", callback)
    \/ \E c \in 1..MaxConns : ServerDrop(c)
    \/ /\ client_class = "PropheseerWebSocket"
       /\ \/ Connect
          \/ close
          \/ \E k \in 1..MaxConns : RunConnected(k)
          \/ \E k \in 1..MaxConns : RunConnectFailed(k)
          \/ \E k \in 1..MaxConns : RunSeesClosed(k)
          \/ \E k \in 1..MaxConns : RunRecvError(k)
          \/ \E k \in 1..MaxConns : RunFinally(k)
          \/ \E k \in 1..MaxConns : AttemptReconnect(k)
          \/ \E k \in 1..MaxConns : ReconnectCount(k)
          \/ \E k \in 1..MaxConns : BackoffDone(k)
          \/ \E k \in 1..MaxConns : ReconnectConnects(k)
          \/ \E k \in 1..MaxConns : ConnectReturns(k)
          \/ \E k \in 1..MaxConns : ConnectTimedOut(k)
          \/ \E k \in 1..MaxConns, frame \in InboundFrames :
                RunRecvMessage(k, frame)
    \/ /\ client_class = "AsyncPropheseerWebSocket"
       /\ \/ AsyncConnect
          \/ AsyncClose
          \/ \E k \in 1..MaxConns : AsyncConnected(k)
          \/ \E k \in 1..MaxConns : AsyncConnectFailed(k)
          \/ \E k \in 1..MaxConns : AsyncReceiveStarts(k)
          \/ \E k \in 1..MaxConns, with_error \in BOOLEAN :
                ReceiveLoopEnds(k, with_error)
          \/ \E k \in 1..MaxConns : AsyncCancelled(k)
          \/ \E k \in 1..MaxConns : AsyncBackoffDone(k)
          \/ \E k \in 1..MaxConns, frame \in InboundFrames :
                AsyncRecvMessage(k, frame)

SpecRecv == InitRecv /\ [][NextRecv]_vars

\* C10: when an automatic reconnect has produced an open connection while
\* the subscription set was non-empty, and the reconnecting thread has taken
\* its copy of the set, replayed it and finished, and the caller has not
\* changed the set since the connection opened, then the server has received
\* on that connection exactly one subscribe frame from the replay, and its
\* markets are the subscription set.
C10_ReplayAfterReconnect ==
    \A c \in 1..MaxConns :
        ( /\ link[c].state = "open"
          /\ run[c].via = "reconnect"
          /\ run[run[c].parent].pc = "dead"
          /\ run[run[c].parent].snap # {}
          /\ link[c].due # {}
          /\ ~link[c].touched )
        => /\ \E i \in 1..Len(link[c].frames) :
                 /\ link[c].frames[i].by = "replay"
                 /\ link[c].frames[i].type = "subscribe"
                 /\ link[c].frames[i].markets = _subscribed_markets
           /\ Cardinality({i \in 1..Len(link[c].frames) :
                             link[c].frames[i].by = "replay"}) = 1

\* no thread of the client is at a point from which it can still send a
\* frame or start a connection
ThreadsQuiet ==
    \A k \in 1..MaxConns : run[k].pc \in {"unborn", "recv", "dead"}

\* C11: identifiers given to subscribe() while the client was not connected
\* are in the subscription set when the next connection opens; once that
\* connection is open through a connect() of the caller, every thread has
\* come to rest and the caller has not changed the set since, the server has
\* received a subscribe frame carrying those identifiers on it.
C11_RememberedSentOnConnect ==
    \A c \in 1..MaxConns :
        ( /\ link[c].state = "open"
          /\ _ws = c
          /\ run[c].via = "connect"
          /\ link[c].due # {}
          /\ ~link[c].touched
          /\ ThreadsQuiet )
        => \E i \in 1..Len(link[c].frames) :
              /\ link[c].frames[i].type = "subscribe"
              /\ link[c].due \subseteq link[c].frames[i].markets

\* the events of one name, in the order of their emission
EventsNamed(ev) == SelectSeq(events, LAMBDA e : e.ev = ev)

\* the first connection was established and dropped without close() ever
\* being called, every later connection attempt was made by the reconnect
\* procedure and failed, and nothing of the client is running any more
DroppedAndAllAttemptsFailed ==
    /\ _reconnect_enabled
    /\ close_called = "never"
    /\ run[1].via = "connect" /\ link[1].state = "closed"
    /\ \A k \in 2..MaxConns :
          run[k].pc # "unborn" =>
              run[k].via = "reconnect" /\ link[k].state = "none"
    /\ \A k \in 1..MaxConns : run[k].pc \in {"unborn", "dead"}

\* C12: when the connection has dropped, reconnection is enabled and every
\* later attempt has failed, then once the client has come to rest the
\* reconnect events emitted carry 1, 2, ..., max_reconnect_attempts in that
\* order and the last event emitted is the single final error event.
C12_ReconnectEventsThenFinalError ==
    DroppedAndAllAttemptsFailed =>
        /\ EventsNamed("reconnect") =
              [n \in 1.._max_reconnect_attempts |-> Event("reconnect", n)]
        /\ events # << >>
        /\ events[Len(events)] = Event("error", _max_reconnect_attempts)
        /\ Len(SelectSeq(events, LAMBDA e :
                  e = Event("error", _max_reconnect_attempts))) = 1

\* C13: the wait before reconnect attempt n is min(2^(n-1), 30) seconds:
\* 1, 2, 4, 8 and 16 seconds for n = 1..5 and 30 seconds for every n >= 6,
\* a function of n alone.
C13_ReconnectDelaySchedule ==
    (call.fn = "ReconnectDelay" /\ ret.done) =>
        LET n == call.args[1]
        IN  ret.value = CASE n = 1 -> 1000
                          [] n = 2 -> 2000
                          [] n = 3 -> 4000
                          [] n = 4 -> 8000
                          [] n = 5 -> 16000
                          [] OTHER -> 30000

C13_Witness ==
    /\ call.fn = "ReconnectDelay" /\ ret.done
    /\ call.args[1] = 6
    /\ ret.value = 30000

\* C14: from a close() of the caller until the caller's next connect(), no
\* step of the client emits a reconnect event and no step calls connect().
C14_NoReconnectAfterClose ==
    [][ (close_called = "closed" /\ close_called' = "closed") =>
            /\ nconn' = nconn
            /\ EventsNamed("reconnect")' = EventsNamed("reconnect") ]_vars

\* a step in which a client that is not closed receives a JSON object
ReceivesObject ==
    /\ inbound'.n = inbound.n + 1
    /\ inbound'.last.json = "object"
    /\ ~_closed

\* every callback registered for the event, in order of registration
AllCallbacks(ev) == [j \in 1..Len(_listeners[ev]) |-> j]

\* C15: every emission calls every callback registered for its event, also
\* those registered after one that raises; and the step that receives a
\* frame whose callbacks are called, raising or not, leaves the receive loop
\* waiting for the next frame on the same open connection.
C15_RaisingHandlerIsContained ==
    [][ /\ \A i \in 1..Len(events') :
              events'[i].called = AllCallbacks(events'[i].ev)
        /\ (ReceivesObject /\ inbound'.last.type = PyStr("market_update")) =>
              /\ Len(events') = Len(events) + 1
              /\ run' = run
              /\ link' = link ]_vars

\* two frames were received one after the other on one connection, the first
\* callback of two raising on each
C15_Witness ==
    /\ _listeners["market_update"] = <<"raises", "returns">>
    /\ inbound.n = 2
    /\ events = <<[ev |-> "market_update", n |-> 0, called |-> <<1, 2>>],
                  [ev |-> "market_update", n |-> 0, called |-> <<1, 2>>]>>
    /\ \E k \in 1..MaxConns : run[k].pc = "recv" /\ link[k].state = "open"

\* C16: a received JSON object whose type is one of connected,
\* market_update, market_snapshot, subscribed, unsubscribed, error is emitted
\* once, on the channel of that name; an object with another type or with no
\* type emits nothing; either way the receive loop and the connection stay
\* as they were.
C16_DispatchByType ==
    [][ ReceivesObject =>
          LET type == inbound'.last.type
              known == type # None /\
                       type.s \in {"connected", "market_update",
                                   "market_snapshot", "subscribed",
                                   "unsubscribed", "error"}
          IN  /\ known => /\ Len(events') = Len(events) + 1
                          /\ events'[Len(events')].ev = type.s
                          /\ SubSeq(events', 1, Len(events)) = events
              /\ ~known => events' = events
              /\ run' = run
              /\ link' = link
              /\ \A t \in {"connected", "market_update", "market_snapshot",
                            "subscribed", "unsubscribed", "error"} :
                    /\ Len(ReceiveFrame(ObjectFrame(PyStr(t))).evs) = 1
                    /\ ReceiveFrame(ObjectFrame(PyStr(t))).evs[1].ev = t
              /\ \A t \in {"pong", "Connected", "market", ""} :
                    ReceiveFrame(ObjectFrame(PyStr(t))).evs = << >> ]_vars

\* a frame of a type the client does not know was received and dropped, and
\* then one of a known type was emitted
C16_Witness ==
    /\ inbound = [n |-> 2, last |-> ObjectFrame(PyStr("subscribed"))]
    /\ Len(events) = 1 /\ events[1].ev = "subscribed"
    /\ \E k \in 1..MaxConns : run[k].pc = "recv" /\ link[k].state = "open"

\* C17: once close() has been called, no step starts a connection attempt
\* and no connection becomes open.
C17_ClosedIsTerminal ==
    [][ close_called # "never" =>
            /\ nconn' = nconn
            /\ \A c \in 1..MaxConns :
                  link'[c].state = "open" => link[c].state = "open" ]_vars

(***************************************************************************)
(* _pagination.py and resources/markets.py: pages and auto-pagination.     *)
(***************************************************************************)
PaginationMeta(total, limit, offset) ==
    [total |-> total, limit |-> limit, offset |-> offset]

SyncPage_has_moreInclusive(meta) == meta.offset + meta.limit <= meta.total

SyncPage_has_more(meta) == meta.offset + meta.limit < meta.total

SyncPage_next_offsetSkipsOne(meta) ==
    IF ~SyncPage_has_more(meta) THEN None
    ELSE PyInt(meta.offset + meta.limit + 1)

SyncPage_next_offset(meta) ==
    IF ~SyncPage_has_more(meta) THEN None
    ELSE PyInt(meta.offset + meta.limit)

AsyncPage_has_more(meta) == meta.offset + meta.limit < meta.total

AsyncPage_next_offset(meta) ==
    IF ~AsyncPage_has_more(meta) THEN None
    ELSE PyInt(meta.offset + meta.limit)

\* the page class the resource builds: SyncMarkets.list a SyncPage,
\* AsyncMarkets.list an AsyncPage
has_more(cls, meta) ==
    IF cls = "SyncPage" THEN SyncPage_has_more(meta)
    ELSE AsyncPage_has_more(meta)

next_offset(cls, meta) ==
    IF cls = "SyncPage" THEN SyncPage_next_offset(meta)
    ELSE AsyncPage_next_offset(meta)

\* a server holding the items 0 .. T-1 answers list(offset, limit) with the
\* items offset .. min(offset + limit, T) - 1 and the metadata of the request
ServerList(T, offset, limit) ==
    LET last == IF offset + limit < T THEN offset + limit ELSE T
        count == IF last > offset THEN last - offset ELSE 0
    IN  [data |-> [i \in 1..count |-> offset + i - 1],
         meta |-> PaginationMeta(T, limit, offset)]

\* PaginationMeta.from_dict of metadata that carries the total alone:
\* data.get("limit", 0) and data.get("offset", 0)
from_dict_total_only(total) == PaginationMeta(total, 0, 0)

\* what a server answers: the honest one as above; one that sends pages
\* without items while its metadata promises more; one that sends the items
\* with a total of 0; one that sends the items and, as metadata, the total
\* alone
Servers == {"honest", "empty_pages", "total_zero", "total_only"}

\* requests after which a run of list_auto_paginate is followed no further;
\* an honest server is asked at most MaxTotal + 1 times
MaxRequests == MaxTotal + 2

ServerAnswer(server, T, offset, limit) ==
    CASE server = "empty_pages" ->
           [data |-> << >>, meta |-> PaginationMeta(T, limit, offset)]
      [] server = "total_zero" ->
           [data |-> ServerList(T, offset, limit).data,
            meta |-> PaginationMeta(0, limit, offset)]
      [] server = "total_only" ->
           [data |-> ServerList(T, offset, limit).data,
            meta |-> from_dict_total_only(T)]
      [] OTHER -> ServerList(T, offset, limit)

\* list_auto_paginate: `for item in page.data`, from the i-th item on; out are
\* the items yielded so far, so yielded is Len(out)
RECURSIVE YieldItems(_, _, _, _)
YieldItems(data, i, out, max_items) ==
    IF i > Len(data) THEN [out |-> out, capped |-> FALSE]
    ELSE LET yielded == Append(out, data[i])
         IN  IF Truthy(max_items) /\ Len(yielded) >= max_items.n
             THEN [out |-> yielded, capped |-> TRUE]
             ELSE YieldItems(data, i + 1, yielded, max_items)

PageEndsIgnoresEmpty(cls, page) == ~has_more(cls, page.meta)

\* if not page.has_more() or len(page.data) == 0: return
PageEnds(cls, page) == ~has_more(cls, page.meta) \/ Len(page.data) = 0

\* list_auto_paginate: `while True`, requests being the offsets requested
RECURSIVE PageLoop(_, _, _, _, _, _, _, _)
PageLoop(cls, server, T, page_limit, max_items, offset, out, requests) ==
    LET page == ServerAnswer(server, T, offset, page_limit)
        sent == Append(requests, offset)
        y == YieldItems(page.data, 1, out, max_items)
    IN  IF y.capped THEN [items |-> y.out, requests |-> sent]
        ELSE IF PageEnds(cls, page) \/ Len(sent) >= MaxRequests
        THEN [items |-> y.out, requests |-> sent]
        ELSE PageLoop(cls, server, T, page_limit, max_items,
                      next_offset(cls, page.meta).n, y.out, sent)

\* list_auto_paginate(limit=limit, max_items=max_items), consumed to its end
list_auto_paginate(cls, server, T, limit, max_items) ==
    PageLoop(cls, server, T, PyOr(limit, PyInt(50)).n, max_items, 0, << >>,
             << >>)

PageClasses == {"SyncPage", "AsyncPage"}
MetaInts == (0 - 1)..MaxMeta

PageCalls ==
    {[fn |-> "has_more", args |-> <<cls, total, limit, offset>>] :
        cls \in PageClasses, total \in MetaInts, limit \in MetaInts,
        offset \in MetaInts}
      \cup {[fn |-> "list_auto_paginate",
              args |-> <<cls, T, limit, m, server>>] :
               cls \in PageClasses, T \in 0..MaxTotal, server \in Servers,
               limit \in {None} \cup {PyInt(L) : L \in 1..MaxPageSize},
               m \in {None} \cup {PyInt(k) : k \in 0..(MaxTotal + 1)}}

\* page.has_more() and page.next_offset() of a page with the given metadata
Call_has_more ==
    /\ call.fn = "has_more"
    /\ ~ret.done
    /\ LET meta == PaginationMeta(call.args[2], call.args[3], call.args[4])
       IN  ret' = [done |-> TRUE,
                   value |-> [has_more |-> has_more(call.args[1], meta),
                              next_offset |-> next_offset(call.args[1], meta)]]
    /\ UNCHANGED <<call, calls, reqVars, wsVars>>

Call_list_auto_paginate ==
    /\ call.fn = "list_auto_paginate"
    /\ ~ret.done
    /\ ret' = [done |-> TRUE,
               value |-> list_auto_paginate(call.args[1], call.args[5],
                                            call.args[2], call.args[3],
                                            call.args[4])]
    /\ UNCHANGED <<call, calls, reqVars, wsVars>>

InitPage == ReqIdle /\ call \in PageCalls /\ ret = NoRet /\ WsIdle

NextPage == Call_has_more \/ Call_list_auto_paginate

SpecPage == InitPage /\ [][NextPage]_vars

\* C18: has_more() is true exactly when offset + limit < total; next_offset()
\* is None exactly when has_more() is false and offset + limit otherwise; the
\* two page classes give the same results.
C18_HasMoreNextOffset ==
    (call.fn = "has_more" /\ ret.done) =>
        LET total == call.args[2]
            limit == call.args[3]
            offset == call.args[4]
            meta == PaginationMeta(total, limit, offset)
        IN  /\ ret.value.has_more \in BOOLEAN
            /\ ret.value.has_more <=> (offset + limit < total)
            /\ (ret.value.next_offset = None) <=> ~ret.value.has_more
            /\ ret.value.has_more =>
                  ret.value.next_offset = PyInt(offset + limit)
            /\ SyncPage_has_more(meta) = AsyncPage_has_more(meta)
            /\ SyncPage_next_offset(meta) = AsyncPage_next_offset(meta)

\* the last page: offset 2, limit 1, total 3 has no more and no next offset
C18_Witness ==
    /\ call.fn = "has_more" /\ ret.done
    /\ call.args = <<"SyncPage", 3, 1, 2>>
    /\ ret.value = [has_more |-> FALSE, next_offset |-> None]

\* C19: with page size L and no cap, against a server holding T items, the
\* items yielded are the T items once each in server order, the requests are
\* for the offsets 0, L, 2L, ..., and the last request is the first whose
\* page reaches the total.
C19_AutoPaginateYieldsAll ==
    ( /\ call.fn = "list_auto_paginate" /\ ret.done
      /\ call.args[5] = "honest"
      /\ call.args[3] # None /\ call.args[4] = None ) =>
        LET T == call.args[2]
            L == call.args[3].n
            items == ret.value.items
            requests == ret.value.requests
        IN  /\ items = [i \in 1..T |-> i - 1]
            /\ Len(requests) >= 1
            /\ \A j \in 1..Len(requests) : requests[j] = (j - 1) * L
            /\ \A j \in 1..(Len(requests) - 1) : requests[j] + L < T
            /\ requests[Len(requests)] + L >= T

\* two pages of size 1 with total 2: two items, two requests
C19_Witness ==
    /\ call.fn = "list_auto_paginate" /\ ret.done
    /\ call.args = <<"SyncPage", 2, PyInt(1), None, "honest">>
    /\ ret.value = [items |-> <<0, 1>>, requests |-> <<0, 1>>]

\* C20: with the cap max_items = m, at most m items are yielded, and a page
\* is requested only while fewer than m items have been yielded.
C20_CapRespected ==
    ( /\ call.fn = "list_auto_paginate" /\ ret.done
      /\ call.args[5] = "honest"
      /\ call.args[4] # None ) =>
        LET m == call.args[4].n
        IN  /\ Len(ret.value.items) <= m
            /\ \A j \in 2..Len(ret.value.requests) :
                  ret.value.requests[j] < m

\* C21: whatever the server answers, a page is requested after another only
\* when that other page had at least one item and metadata with
\* offset + limit < total: a page without items ends the pagination, and so
\* does a page whose has_more() is false.
C21_StopsOnEmptyOrLastPage ==
    (call.fn = "list_auto_paginate" /\ ret.done) =>
        LET requests == ret.value.requests
            L == IF call.args[3] = None THEN 50 ELSE call.args[3].n
        IN  \A j \in 1..(Len(requests) - 1) :
                LET page == ServerAnswer(call.args[5], call.args[2],
                                         requests[j], L)
                IN  /\ Len(page.data) > 0
                    /\ page.meta.offset + page.meta.limit < page.meta.total

\* the first page has no item although 4 are promised: one request, no more
C21_Witness ==
    /\ call.fn = "list_auto_paginate" /\ ret.done
    /\ call.args = <<"SyncPage", 4, PyInt(1), None, "empty_pages">>
    /\ ret.value = [items |-> << >>, requests |-> <<0>>]

----------------------------------------------------------------------------
\* _base_client.py: key normalisation.  A key is the sequence of its
\* characters; a JSON-like value is a scalar, a list or a dict, a dict being
\* the sequence of its items in insertion order.

MaxKeyLen == 3
MaxItems == 2
MaxDepth == 2

LowerLetters == <<"a", "b", "c", "d", "e", "f", "g", "h", "i", "j", "k", "l",
                  "m", "n", "o", "p", "q", "r", "s", "t", "u", "v", "w", "x",
                  "y", "z">>
UpperLetters == <<"A", "B", "C", "D", "E", "F", "G", "H", "I", "J", "K", "L",
                  "M", "N", "O", "P", "Q", "R", "S", "T", "U", "V", "W", "X",
                  "Y", "Z">>
Digits == {"0", "1", "2", "3", "4", "5", "6", "7", "8", "9"}

\* [a-z], [A-Z], \d and [a-z0-9]
IsLower(c) == \E n \in 1..26 : LowerLetters[n] = c
IsUpper(c) == \E n \in 1..26 : UpperLetters[n] = c
IsDigit(c) == c \in Digits
IsLowerOrDigit(c) == IsLower(c) \/ IsDigit(c)

\* the last character of the run of [A-Z] that starts at i
RECURSIVE UpperRunEnd(_, _)
UpperRunEnd(s, i) ==
    IF i < Len(s)
    THEN IF IsUpper(s[i + 1]) THEN UpperRunEnd(s, i + 1) ELSE i
    ELSE i

\* _CAMEL_RE_1.sub(r"\1_\2", s): ([A-Z]+)([A-Z][a-z]), the leftmost matches,
\* none overlapping another; the greedy run gives its last capital to group 2
RECURSIVE Sub_CAMEL_RE_1(_, _, _)
Sub_CAMEL_RE_1(s, i, out) ==
    IF i > Len(s) THEN out
    ELSE LET j == UpperRunEnd(s, i)
             matches == IF IsUpper(s[i]) /\ j > i /\ j < Len(s)
                        THEN IsLower(s[j + 1]) ELSE FALSE
         IN  IF matches
             THEN Sub_CAMEL_RE_1(s, j + 2,
                      out \o SubSeq(s, i, j - 1) \o <<"_", s[j], s[j + 1]>>)
             ELSE Sub_CAMEL_RE_1(s, i + 1, Append(out, s[i]))

\* _CAMEL_RE_2.sub(r"\1_\2", s): ([a-z0-9])([A-Z])
RECURSIVE Sub_CAMEL_RE_2(_, _, _)
Sub_CAMEL_RE_2(s, i, out) ==
    IF i > Len(s) THEN out
    ELSE LET matches == IF i < Len(s)
                        THEN IsLowerOrDigit(s[i]) /\ IsUpper(s[i + 1])
                        ELSE FALSE
         IN  IF matches
             THEN Sub_CAMEL_RE_2(s, i + 2, out \o <<s[i], "_", s[i + 1]>>)
             ELSE Sub_CAMEL_RE_2(s, i + 1, Append(out, s[i]))

\* _DIGIT_BOUNDARY_RE.sub(r"\1_\2", s): ([a-z])(\d)
RECURSIVE Sub_DIGIT_BOUNDARY_RE(_, _, _)
Sub_DIGIT_BOUNDARY_RE(s, i, out) ==
    IF i > Len(s) THEN out
    ELSE LET matches == IF i < Len(s)
                        THEN IsLower(s[i]) /\ IsDigit(s[i + 1])
                        ELSE FALSE
         IN  IF matches
             THEN Sub_DIGIT_BOUNDARY_RE(s, i + 2,
                                        out \o <<s[i], "_", s[i + 1]>>)
             ELSE Sub_DIGIT_BOUNDARY_RE(s, i + 1, Append(out, s[i]))

\* str.lower()
LowerChar(c) ==
    IF IsUpper(c) THEN LowerLetters[CHOOSE n \in 1..26 : UpperLetters[n] = c]
    ELSE c

lower(s) == [n \in 1..Len(s) |-> LowerChar(s[n])]

_camel_to_snake(name) ==
    LET s1 == Sub_CAMEL_RE_1(name, 1, << >>)
        s2 == Sub_CAMEL_RE_2(s1, 1, << >>)
        s3 == Sub_DIGIT_BOUNDARY_RE(s2, 1, << >>)
    IN  lower(s3)

\* JSON-like values; a list item has the empty key
JsonScalar(x) == [t |-> "scalar", s |-> x, items |-> << >>]
JsonList(vs) ==
    [t |-> "list", s |-> "",
     items |-> [n \in 1..Len(vs) |-> [k |-> << >>, v |-> vs[n]]]]
JsonDict(kvs) == [t |-> "dict", s |-> "", items |-> kvs]

\* d[k] = v on a dict under construction: a key already present keeps its
\* place and takes the new value
DictSet(items, k, v) ==
    IF \E n \in 1..Len(items) : items[n].k = k
    THEN [n \in 1..Len(items) |->
             IF items[n].k = k THEN [k |-> k, v |-> v] ELSE items[n]]
    ELSE Append(items, [k |-> k, v |-> v])

\* _transform_keys(obj); the dict comprehension inserts the items in order
RECURSIVE _transform_keys(_)
RECURSIVE TransformItems(_, _, _)
TransformItems(items, n, out) ==
    IF n > Len(items) THEN out
    ELSE TransformItems(items, n + 1,
             DictSet(out, _camel_to_snake(items[n].k),
                     _transform_keys(items[n].v)))

_transform_keys(obj) ==
    CASE obj.t = "dict" -> JsonDict(TransformItems(obj.items, 1, << >>))
      [] obj.t = "list" ->
           [obj EXCEPT !.items =
               [n \in 1..Len(obj.items) |->
                   [k |-> << >>, v |-> _transform_keys(obj.items[n].v)]]]
      [] OTHER -> obj

\* the keys and values the functions are applied to
KeyAlphabet == {"a", "B", "1", "_"}

SeqsUpTo(S, n) == UNION {[1..m -> S] : m \in 0..n}

ExampleKeys == {<<"s", "o", "u", "r", "c", "e", "I", "d">>,
                <<"v", "o", "l", "u", "m", "e", "2", "4", "h">>,
                <<"y", "e", "s", "P", "r", "i", "c", "e">>,
                <<"i", "m", "a", "g", "e", "U", "R", "L">>}

KeyInputs == SeqsUpTo(KeyAlphabet, MaxKeyLen) \cup ExampleKeys

JsonKeys == {<<"a", "B">>, <<"B", "1">>}

JsonOver(V) ==
    V \cup {JsonList(vs) : vs \in SeqsUpTo(V, MaxItems)}
      \cup {JsonDict(kvs) :
               kvs \in {x \in SeqsUpTo([k : JsonKeys, v : V], MaxItems) :
                           \A m, n \in 1..Len(x) :
                               x[m].k = x[n].k => m = n}}

RECURSIVE JsonLevel(_)
JsonLevel(depth) ==
    IF depth = 0 THEN {JsonScalar("aB")} ELSE JsonOver(JsonLevel(depth - 1))

JsonValues == JsonLevel(MaxDepth)

KeyCalls ==
    {[fn |-> "_camel_to_snake", args |-> <<k>>] : k \in KeyInputs}
      \cup {[fn |-> "_transform_keys", args |-> <<v>>] : v \in JsonValues}

Call_camel_to_snake ==
    /\ call.fn = "_camel_to_snake"
    /\ ~ret.done
    /\ ret' = [done |-> TRUE, value |-> _camel_to_snake(call.args[1])]
    /\ UNCHANGED <<call, calls, reqVars, wsVars>>

Call_transform_keys ==
    /\ call.fn = "_transform_keys"
    /\ ~ret.done
    /\ ret' = [done |-> TRUE, value |-> _transform_keys(call.args[1])]
    /\ UNCHANGED <<call, calls, reqVars, wsVars>>

InitKeys == ReqIdle /\ call \in KeyCalls /\ ret = NoRet /\ WsIdle

NextKeys == Call_camel_to_snake \/ Call_transform_keys

SpecKeys == InitKeys /\ [][NextKeys]_vars

\* C22: normalising a normalised key gives the same key, and normalising a
\* normalised value gives the same value.
C22_NormalizationIdempotent ==
    /\ (call.fn = "_camel_to_snake" /\ ret.done) =>
           _camel_to_snake(ret.value) = ret.value
    /\ (call.fn = "_transform_keys" /\ ret.done) =>
           _transform_keys(ret.value) = ret.value

\* the places of a key where a '_' has to go: n stands for the place between
\* the n-th character and the next
IsLetter(c) == IsLower(c) \/ IsUpper(c)

AcronymToWord(s, n) ==
    IF n + 2 <= Len(s)
    THEN IsUpper(s[n]) /\ IsUpper(s[n + 1]) /\ IsLower(s[n + 2])
    ELSE FALSE

LowerToUpper(s, n) == IsLower(s[n]) /\ IsUpper(s[n + 1])

LetterToDigit(s, n) == IsLetter(s[n]) /\ IsDigit(s[n + 1])

Boundaries(s) ==
    {n \in 1..(Len(s) - 1) :
        AcronymToWord(s, n) \/ LowerToUpper(s, n) \/ LetterToDigit(s, n)}

RECURSIVE JoinAt(_, _, _, _)
JoinAt(s, places, n, out) ==
    IF n > Len(s) THEN out
    ELSE JoinAt(s, places, n + 1,
                IF n \in places THEN out \o <<s[n], "_">>
                ELSE Append(out, s[n]))

\* every key and every scalar of a value, at any depth
RECURSIVE KeysOf(_)
KeysOf(v) ==
    UNION {(IF v.t = "dict" THEN {v.items[n].k} ELSE {})
               \cup KeysOf(v.items[n].v) : n \in 1..Len(v.items)}

RECURSIVE ScalarsOf(_)
ScalarsOf(v) ==
    IF v.t = "scalar" THEN {v.s}
    ELSE UNION {ScalarsOf(v.items[n].v) : n \in 1..Len(v.items)}

\* C23: the normalised key is the key in lower case with a '_' at every
\* acronym-to-word, lowercase-to-uppercase and letter-to-digit place (and
\* maybe at other places); a normalised value has the normalised keys of the
\* value at every depth, and its scalars.
C23_SplitsAtEveryBoundary ==
    /\ (call.fn = "_camel_to_snake" /\ ret.done) =>
           LET key == call.args[1]
           IN  \E places \in SUBSET (1..(Len(key) - 1)) :
                   /\ Boundaries(key) \subseteq places
                   /\ ret.value = lower(JoinAt(key, places, 1, << >>))
    /\ (call.fn = "_transform_keys" /\ ret.done) =>
           /\ KeysOf(ret.value) =
                  {_camel_to_snake(k) : k \in KeysOf(call.args[1])}
           /\ ScalarsOf(ret.value) = ScalarsOf(call.args[1])

----------------------------------------------------------------------------
\* the headers parse_rate_limit_headers gives to int()
NumericHeaders ==
    {"x-ratelimit-limit-day", "x-ratelimit-remaining-day",
     "x-ratelimit-limit-minute", "x-ratelimit-remaining-minute",
     "x-credit-balance-cents", "x-request-cost-cents"}

MalformedNumeric(headers) ==
    \E name \in NumericHeaders \cap DOMAIN headers :
        headers[name].s \notin DOMAIN IntLiteral

\* C24: a 2xx response with a JSON body, x-ratelimit-plan and a numeric
\* rate-limit header that is not an integer still ends the call by returning
\* the parsed body; and the parser raises for no headers other than those
\* with a malformed numeric header.
C24_MalformedHeaderDoesNotMask ==
    /\ ( /\ last_outcome.type = "response"
         /\ is_success(last_outcome.status)
         /\ last_outcome.body.json # "invalid"
         /\ Truthy(Get(last_outcome.headers, "x-ratelimit-plan"))
         /\ MalformedNumeric(last_outcome.headers) ) =>
           /\ pc = "done"
           /\ result.type = "return"
           /\ result.data = last_outcome.body
    /\ ( /\ last_outcome.type = "response"
         /\ ~MalformedNumeric(last_outcome.headers) ) =>
           ~parse_rate_limit_headers(last_outcome.headers).raised

----------------------------------------------------------------------------
\* _response.py: parse_rate_limit_headers on its own.  Each header is absent
\* (None) or has one of a few values.
HeaderValues ==
    [x_ratelimit_plan |-> {None, PyStr(""), PyStr("pro")},
     x_billing_type |-> {None, PyStr("credits"), PyStr("subscription")},
     x_credit_balance_cents |-> {None, PyStr("7"), PyStr("abc")},
     x_credit_balance |-> {None, PyStr("$0.07")},
     x_ratelimit_limit_day |-> {None, PyStr("100"), PyStr("abc")},
     x_ratelimit_remaining_minute |-> {None, PyStr("0")}]

HeaderNames ==
    [x_ratelimit_plan |-> "x-ratelimit-plan",
     x_billing_type |-> "x-billing-type",
     x_credit_balance_cents |-> "x-credit-balance-cents",
     x_credit_balance |-> "x-credit-balance",
     x_ratelimit_limit_day |-> "x-ratelimit-limit-day",
     x_ratelimit_remaining_minute |-> "x-ratelimit-remaining-minute"]

\* the httpx.Headers holding the headers chosen present
HeadersOf(choice) ==
    LET present == {f \in DOMAIN choice : choice[f] # None}
    IN  [name \in {HeaderNames[f] : f \in present} |->
            choice[CHOOSE f \in present : HeaderNames[f] = name]]

HeaderCalls ==
    {[fn |-> "parse_rate_limit_headers", args |-> <<HeadersOf(choice)>>] :
        choice \in [x_ratelimit_plan : HeaderValues.x_ratelimit_plan,
                    x_billing_type : HeaderValues.x_billing_type,
                    x_credit_balance_cents :
                        HeaderValues.x_credit_balance_cents,
                    x_credit_balance : HeaderValues.x_credit_balance,
                    x_ratelimit_limit_day : HeaderValues.x_ratelimit_limit_day,
                    x_ratelimit_remaining_minute :
                        HeaderValues.x_ratelimit_remaining_minute]}

\* value.raised: int() raised ValueError; value.info = NoRateLimit: None
Call_parse_rate_limit_headers ==
    /\ call.fn = "parse_rate_limit_headers"
    /\ ~ret.done
    /\ ret' = [done |-> TRUE,
               value |-> parse_rate_limit_headers(call.args[1])]
    /\ UNCHANGED <<call, calls, reqVars, wsVars>>

InitHdr == ReqIdle /\ call \in HeaderCalls /\ ret = NoRet /\ WsIdle

NextHdr == Call_parse_rate_limit_headers

SpecHdr == InitHdr /\ [][NextHdr]_vars

SubscriptionFields ==
    {"limit_day", "remaining_day", "limit_minute", "remaining_minute"}
CreditFields ==
    {"credit_balance_cents", "credit_balance", "request_cost_cents",
     "request_cost"}

\* C25: when the parser returns, the result is None exactly when the
\* x-ratelimit-plan header is missing; otherwise its billing type is the
\* x-billing-type value, or "subscription" without that header, and only the
\* fields of that billing type are set.
C25_AbsentIffNoPlanHeader ==
    ( /\ call.fn = "parse_rate_limit_headers" /\ ret.done
      /\ ~ret.value.raised ) =>
        LET headers == call.args[1]
            info == ret.value.info
        IN  /\ (info = NoRateLimit) <=>
                   ("x-ratelimit-plan" \notin DOMAIN headers)
            /\ (info # NoRateLimit) =>
                   /\ info.plan = headers["x-ratelimit-plan"]
                   /\ info.billing_type =
                          IF "x-billing-type" \in DOMAIN headers
                          THEN headers["x-billing-type"]
                          ELSE PyStr("subscription")
                   /\ \A f \in IF info.billing_type = PyStr("credits")
                               THEN SubscriptionFields ELSE CreditFields :
                          info[f] = None

----------------------------------------------------------------------------
\* _base_client.py: _build_url.  A query is None or a dict, the dict being
\* the sequence of its items in mapping order; a URL is the sequence of the
\* strings it is the concatenation of.
MaxParams == 2

PyBool(b) == [t |-> "bool", s |-> "", n |-> IF b THEN 1 ELSE 0]

\* str(v)
str(v) ==
    CASE v.t = "int" -> ToString(v.n)
      [] v.t = "bool" -> IF v.n = 1 THEN "True" ELSE "False"
      [] v.t = "none" -> "None"
      [] OTHER -> v.s

NoQuery == [present |-> FALSE, items |-> << >>]
Query(items) == [present |-> TRUE, items |-> items]

\* the items a truthiness test would keep
NonNoneParamsTruthy(items) ==
    SelectSeq(items, LAMBDA p : Truthy(p.v) \/ (p.v.t = "bool" /\ p.v.n = 1))

\* params = {k: str(v) for k, v in query.items() if v is not None}
NonNoneParams(items) == SelectSeq(items, LAMBDA p : p.v # None)

Params(items) ==
    LET kept == NonNoneParams(items)
    IN  [n \in 1..Len(kept) |-> [k |-> kept[n].k, v |-> str(kept[n].v)]]

\* "&".join(f"{k}={v}" for k, v in params.items())
RECURSIVE JoinParams(_, _, _)
JoinParams(params, n, out) ==
    IF n > Len(params) THEN out
    ELSE JoinParams(params, n + 1,
             out \o (IF n > 1 THEN <<"&">> ELSE << >>)
                 \o <<params[n].k, "=", params[n].v>>)

_build_url(base_url, path, query) ==
    LET url == <<base_url, path>>
    IN  IF query.present /\ Len(query.items) > 0
        THEN LET params == Params(query.items)
             IN  IF Len(params) > 0
                 THEN url \o <<"?">> \o JoinParams(params, 1, << >>)
                 ELSE url
        ELSE url

QueryKeys == {"offset", "category", "limit"}
QueryValues == {None, PyInt(0), PyInt(50), PyStr(""), PyStr("sports"),
                PyBool(FALSE)}

Queries ==
    {NoQuery} \cup
    {Query(items) :
        items \in {x \in SeqsUpTo([k : QueryKeys, v : QueryValues], MaxParams) :
                      \A m, n \in 1..Len(x) : x[m].k = x[n].k => m = n}}

UrlCalls ==
    {[fn |-> "_build_url",
      args |-> <<"https://api.propheseer.com", "/v1/markets", q>>] :
        q \in Queries}

Call_build_url ==
    /\ call.fn = "_build_url"
    /\ ~ret.done
    /\ ret' = [done |-> TRUE,
               value |-> _build_url(call.args[1], call.args[2], call.args[3])]
    /\ UNCHANGED <<call, calls, reqVars, wsVars>>

InitUrl == ReqIdle /\ call \in UrlCalls /\ ret = NoRet /\ WsIdle

NextUrl == Call_build_url

SpecUrl == InitUrl /\ [][NextUrl]_vars

\* the key=value pairs read back from a URL, in order
PairsOf(url) ==
    [n \in 1..((Len(url) - 2) \div 4) |->
        [k |-> url[4 * n], v |-> url[4 * n + 2]]]

\* the text of a value in a query string
ValueText ==
    [v \in QueryValues \ {None} |->
        CASE v = PyInt(0) -> "0" [] v = PyInt(50) -> "50"
          [] v = PyStr("") -> "" [] v = PyStr("sports") -> "sports"
          [] v = PyBool(FALSE) -> "False"]

\* C26: the URL is the base address, the path, and, when some parameter is
\* not None, '?' and one key=value pair for each such parameter and no other,
\* in mapping order, falsy values included, '&' between the pairs; with no
\* such parameter the URL ends after the path.
C26_QueryOfNonNoneParams ==
    (call.fn = "_build_url" /\ ret.done) =>
        LET url == ret.value
            items == call.args[3].items
            wanted == {n \in 1..Len(items) : items[n].v # None}
            pairs == PairsOf(url)
        IN  /\ SubSeq(url, 1, 2) = <<call.args[1], call.args[2]>>
            /\ (wanted = {}) <=> (Len(url) = 2)
            /\ wanted # {} =>
                   /\ url[3] = "?"
                   /\ Len(url) = 4 * Cardinality(wanted) + 2
                   /\ \A n \in 1..Len(pairs) :
                          /\ url[4 * n + 1] = "="
                          /\ n > 1 => url[4 * n - 1] = "&"
                   /\ \E f \in [1..Len(pairs) -> wanted] :
                          /\ \A m, n \in 1..Len(pairs) : m < n => f[m] < f[n]
                          /\ \A n \in 1..Len(pairs) :
                                 /\ pairs[n].k = items[f[n]].k
                                 /\ pairs[n].v = ValueText[items[f[n]].v]

\* offset=0 comes first and is kept, the None is left out
C26_Witness ==
    /\ call.fn = "_build_url" /\ ret.done
    /\ call.args[3] = Query(<<[k |-> "offset", v |-> PyInt(0)],
                              [k |-> "category", v |-> None]>>)
    /\ ret.value = <<"https://api.propheseer.com", "/v1/markets", "?",
                     "offset", "=", "0">>

----------------------------------------------------------------------------
\* _base_client.py: two _request calls at once on one client, each a thread
\* (or a task) of its own; a step is what a call does between two sends.

\* where call c keeps last_error, attempt and delay: they are locals of
\* _request, so each call has its own
LocalShared(c) == 1

Local(c) == c

LocalsOf(f) ==
    [attempt |-> f.attempt, last_error |-> f.last_error,
     delay |-> f.delay, ndelays |-> f.ndelays]

\* last_error = None, before the loop
FreshLocals ==
    [attempt |-> 0, last_error |-> NoError, delay |-> 0, ndelays |-> 0]

\* call c goes on as `mine` with the locals `locals`
Store(c, mine, locals) ==
    [x \in 1..2 |->
        [pc |-> IF x = c THEN mine.pc ELSE calls[x].pc,
         auth |-> IF x = c THEN mine.auth ELSE calls[x].auth,
         sends |-> IF x = c THEN mine.sends ELSE calls[x].sends,
         seen |-> IF x = c THEN mine.seen ELSE calls[x].seen,
         result |-> IF x = c THEN mine.result ELSE calls[x].result,
         attempt |-> IF x = Local(c) THEN locals.attempt
                     ELSE calls[x].attempt,
         last_error |-> IF x = Local(c) THEN locals.last_error
                        ELSE calls[x].last_error,
         delay |-> IF x = Local(c) THEN locals.delay ELSE calls[x].delay,
         ndelays |-> IF x = Local(c) THEN locals.ndelays
                     ELSE calls[x].ndelays]]

\* one iteration of  for attempt in range(self.max_retries + 1)  on the
\* locals `loc`: the sleep when attempt > 0, the send answered by o, the try
\* block
LoopStep(loc, o, rand, maxr) ==
    LET t == TryBlock(o, loc.last_error, loc.attempt, maxr)
        slept == loc.attempt > 0
    IN  [next |-> t.next,
         result |-> t.result,
         locals |->
            [attempt |-> IF t.next = "continue" THEN loc.attempt + 1
                         ELSE loc.attempt,
             last_error |-> IF t.next = "continue" THEN t.error
                            ELSE loc.last_error,
             delay |-> IF slept
                       THEN _get_retry_delay(loc.attempt, loc.last_error, rand)
                       ELSE loc.delay,
             ndelays |-> IF slept THEN loc.ndelays + 1 ELSE loc.ndelays]]

CallRequest(c, a) ==
    /\ calls[c].pc = "idle"
    /\ IF MissingCredential(a, api_key)
       THEN calls' = Store(c, [calls[c] EXCEPT
                                  !.pc = "done", !.auth = a,
                                  !.result = Raised(AuthenticationError(
                                      PyStr("API key is required."),
                                      NoHeaders))],
                           LocalsOf(calls[Local(c)]))
       ELSE calls' = Store(c, [calls[c] EXCEPT !.pc = "loop", !.auth = a],
                           FreshLocals)
    /\ UNCHANGED <<call, ret, reqVars, wsVars>>

CallAttempt(c, o, rand) ==
    /\ calls[c].pc = "loop"
    /\ calls[Local(c)].attempt <= max_retries
    /\ calls[Local(c)].attempt = 0 => rand = 0
    /\ LET step == LoopStep(LocalsOf(calls[Local(c)]), o, rand, max_retries)
       IN  calls' = Store(c, [calls[c] EXCEPT
                                 !.sends = @ + 1,
                                 !.seen = Append(@, [o |-> o, rand |-> rand]),
                                 !.pc = IF step.next = "continue" THEN "loop"
                                        ELSE "done",
                                 !.result = step.result],
                          step.locals)
    /\ UNCHANGED <<call, ret, reqVars, wsVars>>

CallExhausted(c) ==
    /\ calls[c].pc = "loop"
    /\ calls[Local(c)].attempt > max_retries
    /\ LET loc == LocalsOf(calls[Local(c)])
       IN  calls' = Store(c, [calls[c] EXCEPT
                                 !.pc = "done",
                                 !.result = Raised(
                                     IF loc.last_error # NoError
                                     THEN loc.last_error
                                     ELSE PropheseerError(
                                         PyStr("Request failed after retries"),
                                         None, None, NoHeaders))],
                          loc)
    /\ UNCHANGED <<call, ret, reqVars, wsVars>>

\* what the sends of the two calls are answered with
TwoOutcomes ==
    {Response(200, ObjectJson(EmptyDict), EmptyDict),
     Response(429, ObjectJson([k \in {"retryAfter"} |-> PyInt(30)]), EmptyDict),
     Response(503, InvalidJson, EmptyDict),
     TimeoutException}

InitTwo ==
    /\ ReqInit /\ call = NoCall /\ ret = NoRet /\ WsIdle
    /\ api_key = PyStr("pk_test")
    /\ max_retries \in {0 - 1, 0, MaxRetriesArg}

NextTwo ==
    \E c \in 1..2 :
        \/ \E a \in BOOLEAN : CallRequest(c, a)
        \/ \E o \in TwoOutcomes, rand \in {0, JitterDen - 1} :
               CallAttempt(c, o, rand)
        \/ CallExhausted(c)

SpecTwo == InitTwo /\ [][NextTwo]_vars

\* the locals of a call that was alone on the client and whose sends were
\* answered by seen[n], seen[n + 1], ...
RECURSIVE AloneAfter(_, _, _, _)
AloneAfter(loc, seen, n, maxr) ==
    IF n > Len(seen) THEN loc
    ELSE AloneAfter(LoopStep(loc, seen[n].o, seen[n].rand, maxr).locals,
                    seen, n + 1, maxr)

OwnSendsOnly ==
    \A c \in 1..2 :
        calls[c].pc \in {"loop", "done"} /\ calls[c].sends > 0 =>
            LocalsOf(calls[c]) =
                AloneAfter(FreshLocals, calls[c].seen, 1, max_retries)

\* C27: with two calls running at once on one client, at every moment the
\* attempt count, the recorded last error and the delays of each call are
\* those of a call alone on the client with the same answers to its own
\* sends, and no step writes the client's api_key or max_retries.
C27_ConcurrentCallsIndependent ==
    /\ []OwnSendsOnly
    /\ [][api_key' = api_key /\ max_retries' = max_retries]_vars

\* both calls are between two sends, each with its own error and count
C27_Witness ==
    /\ calls[1].pc = "loop" /\ calls[2].pc = "loop"
    /\ calls[1].attempt = 2 /\ calls[1].last_error.kind = "RateLimitError"
    /\ calls[2].attempt = 1 /\ calls[2].last_error.kind = "APIConnectionError"

----------------------------------------------------------------------------
\* C28: no call of connect() ends by raising to its caller: a connection that
\* cannot be established is reported by an error event.
C28_ConnectNeverRaises ==
    \A k \in DOMAIN run :
        /\ run[k].pc # "raised"
        /\ (run[k].via = "connect" /\ run[k].pc = "dead"
               /\ link[k].state = "none") =>
              \E n \in 1..Len(events) : events[n].ev = "error"

\* C29: once close() has returned, and until connect() is called again, no
\* ping loop of the client is alive and no thread of it is in the receive
\* loop.
C29_CloseStopsBothLoops ==
    close_called = "closed" =>
        /\ pingers = {}
        /\ \A k \in DOMAIN run : run[k].pc # "recv"

\* C30: the step in which a reconnecting thread replays the subscription
\* set leaves the set as the caller's subscribe and unsubscribe calls made
\* it: no market is added by the replay.
C30_ReplayKeepsCallerSet ==
    [][\A k \in 1..MaxConns :
          (run[k].pc = "replay" /\ run'[k].pc # "replay") =>
              _subscribed_markets' = _subscribed_markets]_vars

----------------------------------------------------------------------------
\* C31: the reconnect counter stays within 0..max_reconnect_attempts, every
\* reconnect event carries a number in 1..max_reconnect_attempts.
C31_ReconnectCounterBounded ==
    /\ 0 <= _reconnect_attempts
    /\ _reconnect_attempts <= _max_reconnect_attempts
    /\ \A n \in 1..Len(events) :
           events[n].ev = "reconnect" =>
               events[n].n \in 1.._max_reconnect_attempts

\* a thread or task that has left its receive loop and the finally block
PastFinally(k) ==
    run[k].pc \in {"dead", "reconnect", "count", "backoff", "reconnecting",
                   "waitconnect", "replay"}

\* C32: every connection that was established and is closed, and whose
\* receive loop is over, has had its disconnect event; every reconnect event
\* comes after a disconnect event; with reconnect=False there is no reconnect
\* event and no connection attempt made by the client itself.
C32_DisconnectThenReconnect ==
    /\ Cardinality({k \in 1..MaxConns :
                       link[k].state = "closed" /\ PastFinally(k)})
          <= Len(EventsNamed("disconnect"))
    /\ \A n \in 1..Len(events) :
           events[n].ev = "reconnect" =>
               \E m \in 1..(n - 1) : events[m].ev = "disconnect"
    /\ ~_reconnect_enabled =>
           /\ EventsNamed("reconnect") = << >>
           /\ \A k \in 1..MaxConns : run[k].via # "reconnect"

\* C33: the subscription set changes only in a subscribe, unsubscribe or
\* list_subscriptions call of the caller, whatever the connection state: a
\* step that is no such call leaves the set as the caller's calls made it,
\* and a call only adds ids to it or only removes ids from it.
C33_SetFollowsCallerCalls ==
    [][/\ ncalls' = ncalls => _subscribed_markets' = _subscribed_markets
       /\ ncalls' # ncalls =>
              \/ _subscribed_markets \subseteq _subscribed_markets'
              \/ _subscribed_markets' \subseteq _subscribed_markets]_vars

\* the client has a connection object and that connection is open
HasOpenTransport == _ws # 0 /\ link[_ws].state = "open"

\* C34: a subscribe, unsubscribe or list_subscriptions call made while the
\* client has no open connection puts no frame on any connection, emits no
\* event and changes no thread or task, no counter and no flag of the client;
\* every subscribe or unsubscribe frame a server has received from the caller
\* was sent by a call made while that connection was open, so the other ids of
\* the set reach a server in a replay frame only.
C34_OfflineCallOnlyChangesSet ==
    [][(ncalls' # ncalls /\ ~HasOpenTransport) =>
           /\ \A k \in 1..MaxConns :
                  /\ link'[k].frames = link[k].frames
                  /\ link'[k].state = link[k].state
           /\ events' = events
           /\ run' = run /\ pingers' = pingers /\ nconn' = nconn
           /\ _ws' = _ws /\ _closed' = _closed
           /\ _reconnect_attempts' = _reconnect_attempts
           /\ _connected_event' = _connected_event]_vars

\* C34 witness: a call changed the set while the current connection was
\* already closed, and that connection never got a frame.
C34_Witness ==
    /\ _ws # 0
    /\ link[_ws].state = "closed"
    /\ link[_ws].touched
    /\ link[_ws].frames = << >>
    /\ _subscribed_markets # {}

\* the recorded failure is a RateLimitError with a retry_after value
CarriesRetryAfter(e) == e.kind = "RateLimitError" /\ e.retry_after # None

\* C35: a sleep taken before attempt n >= 1 whose recorded failure carries
\* no retry_after lasts at least 0.5 * 2^(n-1) s and strictly less than
\* 0.75 * 2^(n-1) s, whatever failures came before the recorded one; the
\* send of attempt 0 takes no sleep.
C35_BackoffWindow ==
    [][/\ (pc = "loop" /\ ndelays' # ndelays
               /\ ~CarriesRetryAfter(last_error)) =>
              /\ attempt >= 1
              /\ delay' >= 500 * Pow2(attempt - 1)
              /\ delay' < 750 * Pow2(attempt - 1)
       /\ (pc = "loop" /\ sends' # sends /\ attempt = 0) =>
              (ndelays' = ndelays /\ delay' = delay)]_vars

\* the last send got a non-2xx response
LastResponseIsError ==
    /\ last_outcome.type = "response"
    /\ ~is_success(last_outcome.status)

\* C36: after a non-2xx response whose body is no JSON object the call goes
\* on with the error mapped from the empty body, of the kind the status
\* gives and with the message "API error: {status}": it is the recorded
\* error if the call retries and the raised one if the call ends.  With an
\* object body the message is body.error if present, else body.message.
C36_UnparsableBodyKeepsMappedError ==
    LastResponseIsError =>
        LET o == last_outcome
            e == ErrorOf(o)
        IN  /\ o.body.json # "object" =>
                   /\ e.message = PyStr("API error: " \o ToString(o.status))
                   /\ IF pc = "done" THEN result = Raised(e)
                      ELSE last_error = e
            /\ (o.body.json = "object" /\ "error" \in DOMAIN o.body.obj) =>
                   e.message = o.body.obj["error"]
            /\ (o.body.json = "object" /\ "error" \notin DOMAIN o.body.obj
                  /\ "message" \in DOMAIN o.body.obj) =>
                   e.message = o.body.obj["message"]

\* C37: no call ends with the error raised after the retry loop,
\* PropheseerError("Request failed after retries"), and a call that ended
\* without a send is one the credential check failed.
C37_FallbackUnreachable ==
    pc = "done" =>
        /\ ~(/\ result.type = "raise"
             /\ result.error.kind = "PropheseerError"
             /\ result.error.message = PyStr("Request failed after retries"))
        /\ sends = 0 => MissingCredential(auth, api_key)

\* C38: whatever the server answers, the offsets requested in one run of
\* list_auto_paginate start at 0 and each is greater than the one before, so
\* the run ends once the offsets have passed the server's total.
C38_OffsetsStrictlyIncrease ==
    (call.fn = "list_auto_paginate" /\ ret.done) =>
        LET requests == ret.value.requests
        IN  /\ requests[1] = 0
            /\ \A j \in 1..(Len(requests) - 1) : requests[j] < requests[j + 1]
            /\ Len(requests) < MaxRequests

\* C39: at most one ping loop is alive and at most one thread or task is in
\* the receive loop; the ping loop started with a connection sends pings on
\* that connection only, and a connection gets pings only while it is open.
C39_OneLoopOfEachKind ==
    /\ Cardinality(pingers) <= 1
    /\ Cardinality({k \in 1..MaxConns :
                       run[k].pc = "recv" /\ ~run[k].cancelled}) <= 1
    /\ \A c \in 1..MaxConns : link[c].pinged \subseteq {c}

\* the ping loop of the first connection is alive beside the one started by
\* the automatic reconnect, and has sent a ping on the second connection
C39_OldLoopPingsNewConnection ==
    ~(/\ pingers = {1, 2}
      /\ run[2].via = "reconnect"
      /\ 1 \in link[2].pinged)

\* C40: the step in which the receive loop takes a frame that is no JSON, or
\* JSON that is no object, emits no event, leaves every connection as it was
\* and leaves the thread or task in the receive loop.
C40_BadFrameDropped ==
    [][(/\ inbound'.n # inbound.n
        /\ inbound'.last.json \in {"invalid", "array"}
        /\ ~_closed) =>
           /\ events' = events
           /\ link' = link
           /\ run' = run]_vars

=============================================================================
